---- MODULE Spec2Model ----
(***************************************************************************)
(* SJ Professional Directory: the member store (database.py), the record   *)
(* ingestion path (data_processor.py), the text normalisation it uses      *)
(* (text_processor.py) and the administrative add / edit forms             *)
(* (streamlit_app.py), as a state machine.                                 *)
(*                                                                         *)
(* Strings are sequences of one-character strings, so that length,         *)
(* containment, case folding and whitespace splitting are computed, not    *)
(* assumed.  A Python value is a record [t, s, n]: t is its type tag, s    *)
(* the characters of a str, n the number of an int / float / date.         *)
(***************************************************************************)
EXTENDS Integers, Sequences, FiniteSets, TLC

VARIABLES
    members,      \* the members table: a sequence of rows, row i has id = i
    change_log,   \* the member_change_history table: a sequence of entries
    last,         \* what the most recent operation was given and returned
    source,       \* the rows of the source being imported (re-ingestion runs), or
                  \* the files of Raw_Files, each a sequence of rows (import runs)
    pass,         \* which pass over the source is running: 1, 2, or 3 = done
    pos,          \* index in source of the next row to import
    snap,         \* the members table as the first pass over source left it, or
                  \* as it was when the concurrent workers started
    ops,          \* operations performed so far
    budget,       \* operations one behaviour may perform (bounds the exploration)
    stats,        \* DataProcessor.stats of the one DataProcessor instance
    import_batches, \* the import_batches table: row i has id = i
    run,          \* where the import_all_files call in progress stands, and what
                  \* has happened in it so far
    workers       \* the threads working on the store at the same time

vars == <<members, change_log, last, source, pass, pos, snap, ops, budget,
          stats, import_batches, run, workers>>

----------------------------------------------------------------------------
(* Python values *)

None == [t |-> "none", s |-> <<>>, n |-> 0]
StrV(chars) == [t |-> "str", s |-> chars, n |-> 0]
IntV(k) == [t |-> "int", s |-> <<>>, n |-> k]
FloatV(k) == [t |-> "float", s |-> <<>>, n |-> k]
DateV(k) == [t |-> "date", s |-> <<>>, n |-> k]

\* bool(v): None, "", 0 and 0.0 are false
Truthy(v) ==
    CASE v.t = "none" -> FALSE
      [] v.t = "str" -> v.s # <<>>
      [] v.t \in {"int", "float"} -> v.n # 0
      [] OTHER -> TRUE

\* d.get(key): None for a missing key
Get(d, key) == IF key \in DOMAIN d THEN d[key] ELSE None

\* d.update(e)
DictUpdate(d, e) ==
    [k \in (DOMAIN d) \cup (DOMAIN e) |-> IF k \in DOMAIN e THEN e[k] ELSE d[k]]

EmptyDict == [k \in {} |-> None]

----------------------------------------------------------------------------
(* str methods, on sequences of characters *)

UpperChars == <<"A","B","C","D","E","F","G","H","I","J","K","L","M",
                "N","O","P","Q","R","S","T","U","V","W","X","Y","Z">>
LowerChars == <<"a","b","c","d","e","f","g","h","i","j","k","l","m",
                "n","o","p","q","r","s","t","u","v","w","x","y","z">>
Digits == {"0","1","2","3","4","5","6","7","8","9"}

IsUpper(c) == \E i \in DOMAIN UpperChars : UpperChars[i] = c
IsLower(c) == \E i \in DOMAIN LowerChars : LowerChars[i] = c
IsAlpha(c) == IsUpper(c) \/ IsLower(c)
IsSpace(c) == c = " "

LowerChar(c) ==
    IF IsUpper(c) THEN LowerChars[CHOOSE i \in DOMAIN UpperChars : UpperChars[i] = c]
    ELSE c
UpperChar(c) ==
    IF IsLower(c) THEN UpperChars[CHOOSE i \in DOMAIN LowerChars : LowerChars[i] = c]
    ELSE c

\* s.lower()
lower(s) == [i \in 1..Len(s) |-> LowerChar(s[i])]

\* s.title(): a letter is upper-cased after a non-letter, lower-cased after a letter
title(s) ==
    [i \in 1..Len(s) |->
        IF i > 1 /\ IsAlpha(s[i-1]) THEN LowerChar(s[i]) ELSE UpperChar(s[i])]

\* s.strip()
strip(s) ==
    LET nonsp == {i \in 1..Len(s) : ~IsSpace(s[i])}
    IN IF nonsp = {} THEN <<>>
       ELSE LET a == CHOOSE i \in nonsp : \A j \in nonsp : i <= j
                b == CHOOSE i \in nonsp : \A j \in nonsp : i >= j
            IN SubSeq(s, a, b)

\* s.split(): the maximal runs of non-whitespace characters, in order
RECURSIVE SplitFrom(_, _)
SplitFrom(s, i) ==
    IF i > Len(s) THEN <<>>
    ELSE IF IsSpace(s[i]) THEN SplitFrom(s, i + 1)
    ELSE LET ends == {j \in i..Len(s) : \A k \in i..j : ~IsSpace(s[k])}
             e == CHOOSE j \in ends : \A k \in ends : j >= k
         IN <<SubSeq(s, i, e)>> \o SplitFrom(s, e + 1)
split(s) == SplitFrom(s, 1)

\* ' '.join(words)
RECURSIVE join(_)
join(words) ==
    IF words = <<>> THEN <<>>
    ELSE IF Len(words) = 1 THEN words[1]
    ELSE words[1] \o <<" ">> \o join(Tail(words))

\* whether sub occurs in s at index i
OccursAt(sub, s, i) ==
    /\ i >= 1
    /\ i + Len(sub) - 1 <= Len(s)
    /\ \A k \in 1..Len(sub) : s[i + k - 1] = sub[k]

\* sub in s
Contains(s, sub) == \E i \in 1..(Len(s) + 1) : OccursAt(sub, s, i)

\* s.replace(old, new), old non-empty: leftmost non-overlapping occurrences
RECURSIVE ReplaceFrom(_, _, _, _)
ReplaceFrom(s, old, new, i) ==
    IF i > Len(s) THEN <<>>
    ELSE IF OccursAt(old, s, i) THEN new \o ReplaceFrom(s, old, new, i + Len(old))
    ELSE <<s[i]>> \o ReplaceFrom(s, old, new, i + 1)
replace(s, old, new) == ReplaceFrom(s, old, new, 1)

----------------------------------------------------------------------------
(* TextProcessor (text_processor.py) *)

name_prefixes == {<<"d","r">>, <<"d","r",".">>, <<"a","t","t","y">>,
                  <<"a","t","t","y",".">>, <<"e","n","g">>, <<"e","n","g",".">>,
                  <<"p","r","o","f">>, <<"p","r","o","f",".">>}
name_suffixes == {<<"j","r">>, <<"j","r",".">>, <<"s","r">>, <<"s","r",".">>,
                  <<"i","i">>, <<"i","i","i">>, <<"i","v">>, <<"m","d">>,
                  <<"p","e">>, <<"e","s","q">>}

\* keeps the words that are neither a prefix nor a suffix, in order
RECURSIVE CleanedWords(_)
CleanedWords(words) ==
    IF words = <<>> THEN <<>>
    ELSE IF Head(words) \notin name_prefixes /\ Head(words) \notin name_suffixes
         THEN <<Head(words)>> \o CleanedWords(Tail(words))
         ELSE CleanedWords(Tail(words))

\* normalize_name: collapse whitespace, lower-case, drop honorific words
normalize_name(name) ==
    IF name = <<>> THEN <<>>
    ELSE lower(join(CleanedWords(split(lower(join(split(strip(name))))))))

\* the four city patterns: ([A-Za-z\s]+) followed by
\*   1: \s+City   2: ,\s*Metro Manila   3: ,\s*Philippines   4: ,\s*\d{4}
InNameClass(c) == IsAlpha(c) \/ IsSpace(c)

\* index of the first non-whitespace character at or after p (Len(s)+1 if none)
SkipSpaces(s, p) ==
    LET stops == {q \in p..(Len(s) + 1) : q = Len(s) + 1 \/ ~IsSpace(s[q])}
    IN CHOOSE q \in stops : \A r \in stops : q <= r

lit_City == <<"C","i","t","y">>
lit_MetroManila == <<"M","e","t","r","o"," ","M","a","n","i","l","a">>
lit_Philippines == <<"P","h","i","l","i","p","p","i","n","e","s">>

\* whether the part of pattern k after the group matches s from index p on
SuffixMatches(k, s, p) ==
    CASE k = 1 -> /\ p <= Len(s)
                  /\ IsSpace(s[p])
                  /\ OccursAt(lit_City, s, SkipSpaces(s, p))
      [] k = 2 -> /\ p <= Len(s)
                  /\ s[p] = ","
                  /\ OccursAt(lit_MetroManila, s, SkipSpaces(s, p + 1))
      [] k = 3 -> /\ p <= Len(s)
                  /\ s[p] = ","
                  /\ OccursAt(lit_Philippines, s, SkipSpaces(s, p + 1))
      [] OTHER -> /\ p <= Len(s)
                  /\ s[p] = ","
                  /\ LET q == SkipSpaces(s, p + 1)
                     IN /\ q + 3 <= Len(s)
                        /\ \A d \in 0..3 : s[q + d] \in Digits

\* the <<start, end>> pairs of a group that lets pattern k match
GroupSpans(k, s) ==
    {se \in (1..Len(s)) \X (1..Len(s)) :
        /\ se[1] <= se[2]
        /\ \A i \in se[1]..se[2] : InNameClass(s[i])
        /\ SuffixMatches(k, s, se[2] + 1)}

\* re.search: the leftmost start, and for it the longest group
PatternGroup(k, s) ==
    LET spans == GroupSpans(k, s)
        best == CHOOSE se \in spans :
                    \A o \in spans : se[1] < o[1] \/ (se[1] = o[1] /\ se[2] >= o[2])
    IN SubSeq(s, best[1], best[2])

filler_words == {<<"p","h","i","l","i","p","p","i","n","e","s">>,
                 <<"m","a","n","i","l","a">>, <<"m","e","t","r","o">>,
                 <<"s","t">>, <<"s","t","r","e","e","t">>, <<"a","v","e">>,
                 <<"a","v","e","n","u","e">>}

\* the last word that is not a filler word, "" if there is none
LastSignificantWord(words) ==
    LET good == {i \in 1..Len(words) : lower(words[i]) \notin filler_words}
    IN IF good = {} THEN <<>>
       ELSE words[CHOOSE i \in good : \A j \in good : i >= j]

\* extract_city
extract_city(address) ==
    IF address = <<>> THEN <<>>
    ELSE IF GroupSpans(1, address) # {} THEN strip(PatternGroup(1, address))
    ELSE IF GroupSpans(2, address) # {} THEN strip(PatternGroup(2, address))
    ELSE IF GroupSpans(3, address) # {} THEN strip(PatternGroup(3, address))
    ELSE IF GroupSpans(4, address) # {} THEN strip(PatternGroup(4, address))
    ELSE LastSignificantWord(split(address))

\* LOCATION_MAPPINGS, in the order of the dict
LOCATION_MAPPINGS ==
    << <<(<<"Q","C">>), (<<"Q","u","e","z","o","n"," ","C","i","t","y">>)>>,
       <<(<<"M","a","k","a","t","i"," ","C","B","D">>), (<<"M","a","k","a","t","i">>)>>,
       <<(<<"B","G","C">>), (<<"T","a","g","u","i","g">>)>>,
       <<(<<"O","r","t","i","g","a","s">>), (<<"P","a","s","i","g">>)>>,
       <<(<<"M","a","n","d","a","l","u","y","o","n","g"," ","C","i","t","y">>),
         (<<"M","a","n","d","a","l","u","y","o","n","g">>)>>,
       <<(<<"P","a","s","a","y"," ","C","i","t","y">>), (<<"P","a","s","a","y">>)>>,
       <<(<<"M","a","n","i","l","a"," ","C","i","t","y">>), (<<"M","a","n","i","l","a">>)>>
    >>

\* the mapping loop, from entry i on
RECURSIVE ApplyMappings(_, _)
ApplyMappings(location, i) ==
    IF i > Len(LOCATION_MAPPINGS) THEN location
    ELSE LET abbrev == LOCATION_MAPPINGS[i][1]
             full_name == LOCATION_MAPPINGS[i][2]
         IN IF Contains(lower(location), lower(abbrev))
            THEN ApplyMappings(replace(location, abbrev, full_name), i + 1)
            ELSE ApplyMappings(location, i + 1)

city_suffixes == {<<"c","i","t","y">>,
                  <<"m","u","n","i","c","i","p","a","l","i","t","y">>,
                  <<"t","o","w","n">>}

\* re.sub(r'\s+(City|Municipality|Town)$', '', location, flags=re.IGNORECASE)
StripCitySuffix(location) ==
    LET cuts == {i \in 1..Len(location) :
                    /\ IsSpace(location[i])
                    /\ LET q == SkipSpaces(location, i)
                       IN /\ q <= Len(location)
                          /\ lower(SubSeq(location, q, Len(location))) \in city_suffixes}
    IN IF cuts = {} THEN location
       ELSE SubSeq(location, 1, (CHOOSE i \in cuts : \A j \in cuts : i <= j) - 1)

\* normalize_location
normalize_location(location) ==
    IF location = <<>> THEN <<>>
    ELSE strip(StripCitySuffix(ApplyMappings(title(strip(location)), 1)))

----------------------------------------------------------------------------
(* fuzz.ratio and fuzz.token_sort_ratio, as calculate_name_similarity uses *)
(* them (difflib.SequenceMatcher backend)                                  *)

\* length of the common run of a from i and b from j, within a[..ahi], b[..bhi]
RECURSIVE RunLength(_, _, _, _, _, _)
RunLength(a, i, ahi, b, j, bhi) ==
    IF i > ahi \/ j > bhi \/ a[i] # b[j] THEN 0
    ELSE 1 + RunLength(a, i + 1, ahi, b, j + 1, bhi)

\* SequenceMatcher.get_matching_blocks: number of matched characters of
\* a[alo..ahi] and b[blo..bhi]: the longest block (earliest in a, then earliest
\* in b), then the same to its left and to its right
RECURSIVE MatchedChars(_, _, _, _, _, _)
MatchedChars(a, alo, ahi, b, blo, bhi) ==
    IF alo > ahi \/ blo > bhi THEN 0
    ELSE LET starts == (alo..ahi) \X (blo..bhi)
             best == CHOOSE x \in starts : \A y \in starts :
                        LET kx == RunLength(a, x[1], ahi, b, x[2], bhi)
                            ky == RunLength(a, y[1], ahi, b, y[2], bhi)
                        IN \/ kx > ky
                           \/ kx = ky /\ x[1] < y[1]
                           \/ kx = ky /\ x[1] = y[1] /\ x[2] <= y[2]
             k == RunLength(a, best[1], ahi, b, best[2], bhi)
         IN IF k = 0 THEN 0
            ELSE k + MatchedChars(a, alo, best[1] - 1, b, blo, best[2] - 1)
                   + MatchedChars(a, best[1] + k, ahi, b, best[2] + k, bhi)

\* int(round(100 * 2.0 * m / total)): round half to even
RoundedPercent(m, total) ==
    LET q == (200 * m) \div total
        r == (200 * m) % total
    IN IF 2 * r > total THEN q + 1
       ELSE IF 2 * r = total /\ q % 2 = 1 THEN q + 1
       ELSE q

\* fuzz.ratio(s1, s2), 0..100
fuzz_ratio(s1, s2) ==
    IF s1 = s2 THEN 100
    ELSE IF Len(s1) = 0 \/ Len(s2) = 0 THEN 0
    ELSE RoundedPercent(MatchedChars(s1, 1, Len(s1), s2, 1, Len(s2)), Len(s1) + Len(s2))

\* utils.full_process: every character that is not a letter, digit or
\* underscore becomes a space; lower-case; strip
full_process(s) ==
    strip(lower([i \in 1..Len(s) |->
        IF IsAlpha(s[i]) \/ s[i] \in Digits \/ s[i] = "_" THEN s[i] ELSE " "]))

\* code point of a character full_process leaves in a token
CharCode(c) ==
    IF IsLower(c) THEN 96 + (CHOOSE i \in DOMAIN LowerChars : LowerChars[i] = c)
    ELSE IF c = "_" THEN 95
    ELSE IF c \in Digits
         THEN 48 + (CHOOSE d \in 0..9 : <<"0","1","2","3","4","5","6","7","8","9">>[d + 1] = c)
    ELSE 0

\* u < v as Python compares str
WordLess(u, v) ==
    \E i \in 1..(Len(v)) :
        /\ \A k \in 1..(i - 1) : k <= Len(u) /\ u[k] = v[k]
        /\ \/ i = Len(u) + 1
           \/ i <= Len(u) /\ CharCode(u[i]) < CharCode(v[i])

\* sorted(tokens)
RECURSIVE SortedWords(_)
SortedWords(words) ==
    IF words = <<>> THEN <<>>
    ELSE LET mins == {i \in 1..Len(words) : \A j \in 1..Len(words) : ~WordLess(words[j], words[i])}
             m == CHOOSE i \in mins : \A j \in mins : i <= j
         IN <<words[m]>> \o SortedWords(SubSeq(words, 1, m - 1) \o SubSeq(words, m + 1, Len(words)))

\* fuzz.token_sort_ratio(s1, s2), 0..100
token_sort_ratio(s1, s2) ==
    fuzz_ratio(strip(join(SortedWords(split(full_process(s1))))),
               strip(join(SortedWords(split(full_process(s2))))))

\* calculate_name_similarity, in hundredths (the code divides both by 100.0)
calculate_name_similarity(name1, name2) ==
    IF name1 = <<>> \/ name2 = <<>> THEN 0
    ELSE LET norm1 == normalize_name(name1)
             norm2 == normalize_name(name2)
             ratio == fuzz_ratio(norm1, norm2)
             token_ratio == token_sort_ratio(norm1, norm2)
         IN IF ratio >= token_ratio THEN ratio ELSE token_ratio

----------------------------------------------------------------------------
(* The members table and the change log (database.py) *)

\* the columns of the members table that the modelled operations read or write
Columns ==
    {"id", "full_name", "full_name_normalized", "primary_email", "secondary_email",
     "mobile_phone", "current_profession", "school_chapter", "batch_normalized",
     "home_address_full", "home_address_city", "home_address_city_normalized",
     "source_file_name", "data_completeness_score", "confidence_score",
     "is_active", "is_duplicate", "primary_record_id", "created_by", "updated_by"}

\* the value of a column an INSERT does not name
ColumnDefaults ==
    [c \in Columns |->
        IF c = "is_active" THEN IntV(1)
        ELSE IF c = "is_duplicate" THEN IntV(0)
        ELSE None]

\* LIMIT 100 of search_members
SEARCH_LIMIT == 100

\* insert_member: the table after the INSERT; the new row's id is lastrowid
insert_member(ms, member_data) ==
    Append(ms, [c \in Columns |->
        IF c = "id" THEN IntV(Len(ms) + 1)
        ELSE IF c \in DOMAIN member_data THEN member_data[c]
        ELSE ColumnDefaults[c]])

\* update_member: the table after UPDATE members SET ... WHERE id = member_id
update_member(ms, member_id, updates) ==
    IF DOMAIN updates = {} THEN ms
    ELSE [i \in 1..Len(ms) |->
            IF i = member_id
            THEN [c \in Columns |-> IF c \in DOMAIN updates THEN updates[c] ELSE ms[i][c]]
            ELSE ms[i]]

\* get_member_by_id: the row, or None
get_member_by_id(ms, member_id) ==
    IF member_id \in 1..Len(ms) THEN ms[member_id] ELSE None

\* code point of a character, for the BINARY collation of ORDER BY
CodePoint(c) ==
    IF IsLower(c) THEN 96 + (CHOOSE i \in DOMAIN LowerChars : LowerChars[i] = c)
    ELSE IF IsUpper(c) THEN 64 + (CHOOSE i \in DOMAIN UpperChars : UpperChars[i] = c)
    ELSE IF c \in Digits
         THEN 48 + (CHOOSE d \in 0..9 : <<"0","1","2","3","4","5","6","7","8","9">>[d + 1] = c)
    ELSE IF c = " " THEN 32
    ELSE IF c = "," THEN 44
    ELSE IF c = "." THEN 46
    ELSE IF c = "@" THEN 64
    ELSE 95

\* u < v in the BINARY collation
TextLess(u, v) ==
    \E i \in 1..Len(v) :
        /\ \A k \in 1..(i - 1) : k <= Len(u) /\ u[k] = v[k]
        /\ \/ i = Len(u) + 1
           \/ i <= Len(u) /\ CodePoint(u[i]) < CodePoint(v[i])

\* ORDER BY confidence_score DESC, full_name: whether row x must come before
\* row y (NULL sorts as the smallest value)
OrderedBefore(x, y) ==
    LET cx == IF x["confidence_score"].t = "none" THEN -1 ELSE x["confidence_score"].n
        cy == IF y["confidence_score"].t = "none" THEN -1 ELSE y["confidence_score"].n
    IN \/ cx > cy
       \/ /\ cx = cy
          /\ \/ x["full_name"].t = "none" /\ y["full_name"].t # "none"
             \/ /\ x["full_name"].t # "none"
                /\ y["full_name"].t # "none"
                /\ TextLess(x["full_name"].s, y["full_name"].s)

\* column LIKE '%' || text || '%': case-insensitive containment, NULL never matches
Like(value, text) == value.t = "str" /\ Contains(lower(value.s), lower(text))

\* query_params.get(key) is truthy
HasParam(query_params, key) == key \in DOMAIN query_params /\ query_params[key] # <<>>

\* the WHERE clause of search_members without the is_duplicate test
SearchWhere_any_record(row, query_params) ==
    /\ HasParam(query_params, "name") =>
            Like(row["full_name_normalized"], lower(query_params["name"]))
    /\ HasParam(query_params, "email") =>
            \/ row["primary_email"] = StrV(query_params["email"])
            \/ row["secondary_email"] = StrV(query_params["email"])

\* the WHERE clause of search_members for the name and email filters
SearchWhere(row, query_params) ==
    /\ row["is_duplicate"] = IntV(0)
    /\ HasParam(query_params, "name") =>
            Like(row["full_name_normalized"], lower(query_params["name"]))
    /\ HasParam(query_params, "email") =>
            \/ row["primary_email"] = StrV(query_params["email"])
            \/ row["secondary_email"] = StrV(query_params["email"])

\* the ids of the rows the WHERE clause selects, in the order of the table
HitsOf(ms, query_params) ==
    SelectSeq([i \in 1..Len(ms) |-> i], LAMBDA i : SearchWhere(ms[i], query_params))

\* ORDER BY confidence_score DESC, full_name of two sorted lists of ids
RECURSIVE MergeOrdered(_, _, _)
MergeOrdered(ms, a, b) ==
    IF a = <<>> THEN b
    ELSE IF b = <<>> THEN a
    ELSE IF OrderedBefore(ms[Head(b)], ms[Head(a)])
         THEN <<Head(b)>> \o MergeOrdered(ms, a, Tail(b))
         ELSE <<Head(a)>> \o MergeOrdered(ms, Tail(a), b)

\* ORDER BY confidence_score DESC, full_name of a list of ids: one of the
\* orders that respect it
RECURSIVE SortOrdered(_, _)
SortOrdered(ms, ids) ==
    IF Len(ids) <= 1 THEN ids
    ELSE MergeOrdered(ms, SortOrdered(ms, SubSeq(ids, 1, Len(ids) \div 2)),
                      SortOrdered(ms, SubSeq(ids, (Len(ids) \div 2) + 1, Len(ids))))

\* two rows of the sorted list compare equal under ORDER BY
HasTies(ms, sorted) ==
    \E k \in 1..(Len(sorted) - 1) : ~OrderedBefore(ms[sorted[k]], ms[sorted[k + 1]])

\* every order of the sorted ids that respects ORDER BY: the sorted list
\* alone when no two rows compare equal
OrdersOf(ms, sorted) ==
    IF ~HasTies(ms, sorted) THEN {sorted}
    ELSE {f \in [1..Len(sorted) -> {sorted[k] : k \in 1..Len(sorted)}] :
              /\ \A a, b \in 1..Len(sorted) : a # b => f[a] # f[b]
              /\ \A a, b \in 1..Len(sorted) : a < b => ~OrderedBefore(ms[f[b]], ms[f[a]])}

\* LIMIT 100
Limited(ids) == SubSeq(ids, 1, IF Len(ids) < SEARCH_LIMIT THEN Len(ids) ELSE SEARCH_LIMIT)

\* search_members: the result lists the query can return, as sequences of ids.
\* Rows that compare equal under ORDER BY come in an order SQL leaves open,
\* so every order that respects ORDER BY is a possible result.
search_members(ms, query_params) ==
    {Limited(f) : f \in OrdersOf(ms, SortOrdered(ms, HitsOf(ms, query_params)))}

\* log_change writing its entry over the rows of the table
log_change_overwrites(log, locked, member_id, field_name, change_type, change_reason) ==
    IF locked THEN log
    ELSE <<[member_id |-> member_id, field_name |-> field_name,
            change_type |-> change_type, change_reason |-> change_reason]>>

\* log_change: the change log after the call.  The INSERT runs on a connection
\* of its own; when another connection holds an open write transaction it
\* fails with "database is locked", which log_change catches and only logs.
log_change(log, locked, member_id, field_name, change_type, change_reason) ==
    IF locked THEN log
    ELSE Append(log, [member_id |-> member_id, field_name |-> field_name,
                      change_type |-> change_type, change_reason |-> change_reason])

----------------------------------------------------------------------------
(* DataProcessor (data_processor.py) *)

\* len(str(v)).  A float prints as its shortest repr: 1/6 takes 19 characters,
\* 2/6, 4/6 and 5/6 take 18, and 0.0, 0.5, 0.8 and 1.0 take 3.  Floats are
\* kept in units of 1/3000.
StrLenOf(v) ==
    CASE v.t = "str" -> Len(v.s)
      [] v.t = "none" -> 4
      [] v.t = "date" -> 10
      [] v.t = "int" -> IF v.n < 10 THEN 1 ELSE IF v.n < 100 THEN 2 ELSE 3
      [] OTHER -> IF v.n = 500 THEN 19
                  ELSE IF v.n \in {1000, 2000, 2500} THEN 18
                  ELSE 3

required_fields == {"full_name", "primary_email", "mobile_phone",
                    "current_profession", "school_chapter", "batch_normalized"}

\* _calculate_completeness_score: filled_count / 6
calculate_completeness_score(member_data) ==
    FloatV(500 * Cardinality({f \in required_fields : Truthy(Get(member_data, f))}))

\* _calculate_confidence_score
calculate_confidence_score(member_data) ==
    LET completeness == IF "data_completeness_score" \in DOMAIN member_data
                        THEN member_data["data_completeness_score"].n ELSE 0
        email == Get(member_data, "primary_email")
        ai_confidence == IF "inferred_profession_confidence" \in DOMAIN member_data
                         THEN member_data["inferred_profession_confidence"].n ELSE 0
        score == (completeness * 4) \div 10
                 + (IF Truthy(email) /\ Contains(email.s, <<"@">>) THEN 600 ELSE 0)
                 + (IF Truthy(Get(member_data, "current_profession")) THEN 600 ELSE 0)
                 + (IF Truthy(Get(member_data, "batch_normalized")) THEN 300 ELSE 0)
                 + ai_confidence \div 10
    IN FloatV(IF score < 3000 THEN score ELSE 3000)

\* ProfessionInferencer (ai_inference.py).  Scores are kept exact: a keyword
\* weighs 2 units and a high-confidence keyword 3, in halves of the weight of
\* its source, so a normalized score is units / (2 * len(keywords)).

\* config.PROFESSION_KEYWORDS, in the order of the dict
PROFESSION_KEYWORDS ==
    <<
    [profession |-> <<"L","e","g","a","l">>,
     keywords |-> <<
        <<"l","a","w","y","e","r">>, <<"a","t","t","o","r","n","e","y">>,
        <<"c","o","u","n","s","e","l">>, <<"a","d","v","o","c","a","t","e">>,
        <<"l","e","g","a","l">>, <<"l","a","w">>, <<"e","s","q">>,
        <<"l","i","t","i","g","a","t","i","o","n">>,
        <<"c","o","r","p","o","r","a","t","e"," ","l","a","w">>,
        <<"f","a","m","i","l","y"," ","l","a","w">>,
        <<"c","r","i","m","i","n","a","l"," ","l","a","w">>,
        <<"r","e","a","l"," ","e","s","t","a","t","e"," ","l","a","w">>,
        <<"t","a","x"," ","l","a","w">>, <<"l","a","b","o","r"," ","l","a","w">>>>],
    [profession |-> <<"M","e","d","i","c","a","l">>,
     keywords |-> <<
        <<"d","o","c","t","o","r">>, <<"p","h","y","s","i","c","i","a","n">>, <<"m","d">>,
        <<"m","e","d","i","c","a","l">>, <<"c","l","i","n","i","c">>,
        <<"h","o","s","p","i","t","a","l">>, <<"s","u","r","g","e","o","n">>,
        <<"c","a","r","d","i","o","l","o","g","i","s","t">>,
        <<"p","e","d","i","a","t","r","i","c","i","a","n">>,
        <<"n","e","u","r","o","l","o","g","i","s","t">>, <<"d","e","n","t","i","s","t">>,
        <<"n","u","r","s","e">>, <<"h","e","a","l","t","h","c","a","r","e">>,
        <<"m","e","d","i","c","i","n","e">>>>],
    [profession |-> <<"B","u","s","i","n","e","s","s">>,
     keywords |-> <<
        <<"b","u","s","i","n","e","s","s">>, <<"c","o","n","s","u","l","t","a","n","t">>,
        <<"m","a","n","a","g","e","r">>, <<"e","x","e","c","u","t","i","v","e">>, <<"c","e","o">>,
        <<"c","f","o">>, <<"e","n","t","r","e","p","r","e","n","e","u","r">>,
        <<"f","i","n","a","n","c","e">>, <<"a","c","c","o","u","n","t","i","n","g">>,
        <<"c","p","a">>, <<"m","a","r","k","e","t","i","n","g">>, <<"s","a","l","e","s">>,
        <<"o","p","e","r","a","t","i","o","n","s">>, <<"s","t","r","a","t","e","g","y">>>>],
    [profession |-> <<"E","n","g","i","n","e","e","r","i","n","g">>,
     keywords |-> <<
        <<"e","n","g","i","n","e","e","r">>, <<"e","n","g","i","n","e","e","r","i","n","g">>,
        <<"p","e">>, <<"c","i","v","i","l">>, <<"e","l","e","c","t","r","i","c","a","l">>,
        <<"m","e","c","h","a","n","i","c","a","l">>, <<"c","h","e","m","i","c","a","l">>,
        <<"s","o","f","t","w","a","r","e">>, <<"s","y","s","t","e","m","s">>,
        <<"t","e","c","h","n","i","c","a","l">>,
        <<"c","o","n","s","t","r","u","c","t","i","o","n">>,
        <<"p","r","o","j","e","c","t"," ","m","a","n","a","g","e","r">>,
        <<"a","r","c","h","i","t","e","c","t">>>>],
    [profession |-> <<"I","T","/","T","e","c","h","n","o","l","o","g","y">>,
     keywords |-> <<
        <<"p","r","o","g","r","a","m","m","e","r">>, <<"d","e","v","e","l","o","p","e","r">>,
        <<"s","o","f","t","w","a","r","e">>, <<"i","t">>,
        <<"t","e","c","h","n","o","l","o","g","y">>, <<"t","e","c","h">>,
        <<"c","o","m","p","u","t","e","r">>, <<"s","y","s","t","e","m","s">>,
        <<"n","e","t","w","o","r","k">>, <<"d","a","t","a","b","a","s","e">>, <<"w","e","b">>,
        <<"m","o","b","i","l","e">>, <<"c","y","b","e","r","s","e","c","u","r","i","t","y">>,
        <<"d","a","t","a"," ","s","c","i","e","n","t","i","s","t">>>>],
    [profession |-> <<"E","d","u","c","a","t","i","o","n">>,
     keywords |-> <<
        <<"t","e","a","c","h","e","r">>, <<"p","r","o","f","e","s","s","o","r">>,
        <<"e","d","u","c","a","t","o","r">>, <<"p","r","i","n","c","i","p","a","l">>,
        <<"d","e","a","n">>, <<"a","c","a","d","e","m","i","c">>,
        <<"r","e","s","e","a","r","c","h">>, <<"u","n","i","v","e","r","s","i","t","y">>,
        <<"s","c","h","o","o","l">>, <<"t","r","a","i","n","i","n","g">>>>],
    [profession |-> <<"G","o","v","e","r","n","m","e","n","t">>,
     keywords |-> <<
        <<"g","o","v","e","r","n","m","e","n","t">>,
        <<"c","i","v","i","l"," ","s","e","r","v","i","c","e">>,
        <<"p","u","b","l","i","c"," ","s","e","r","v","i","c","e">>, <<"b","u","r","e","a","u">>,
        <<"d","e","p","a","r","t","m","e","n","t">>, <<"m","i","n","i","s","t","r","y">>,
        <<"a","g","e","n","c","y">>, <<"m","u","n","i","c","i","p","a","l">>,
        <<"f","e","d","e","r","a","l">>>>],
    [profession |-> <<"R","e","a","l"," ","E","s","t","a","t","e">>,
     keywords |-> <<
        <<"r","e","a","l"," ","e","s","t","a","t","e">>, <<"b","r","o","k","e","r">>,
        <<"r","e","a","l","t","o","r">>, <<"p","r","o","p","e","r","t","y">>,
        <<"d","e","v","e","l","o","p","m","e","n","t">>,
        <<"c","o","n","s","t","r","u","c","t","i","o","n">>, <<"h","o","u","s","i","n","g">>,
        <<"c","o","m","m","e","r","c","i","a","l">>, <<"r","e","s","i","d","e","n","t","i","a","l">>>>]
    >>

\* config.COMPANY_DOMAINS: the company of a domain, None for the generic providers
COMPANY_DOMAINS ==
    <<
    [domain |-> <<"p","e","t","r","o","n",".","c","o","m">>,
     company |-> StrV(<<"P","e","t","r","o","n"," ","C","o","r","p","o","r","a","t","i","o","n">>)],
    [domain |-> <<"c","h","e","v","r","o","n","t","e","x","a","c","o",".","c","o","m">>,
     company |-> StrV(<<"C","h","e","v","r","o","n"," ","T","e","x","a","c","o">>)],
    [domain |-> <<"c","c","b","p","i",".","c","o","m">>,
     company |-> StrV(<<"C","o","c","a","-","C","o","l","a"," ","B","e","v","e","r","a","g","e","s"," ","P","h","i","l","i","p","p","i","n","e","s">>)],
    [domain |-> <<"f","i","r","s","t","g","a","s",".","c","o","m",".","p","h">>,
     company |-> StrV(<<"F","i","r","s","t"," ","G","a","s"," ","H","o","l","d","i","n","g","s">>)],
    [domain |-> <<"s","u","n",".","c","o","m",".","p","h">>,
     company |-> StrV(<<"S","u","n"," ","C","e","l","l","u","l","a","r">>)],
    [domain |-> <<"m","o","z","c","o","m",".","c","o","m">>,
     company |-> StrV(<<"M","o","z","c","o","m">>)],
    [domain |-> <<"p","i","l","n","e","t",".","c","o","m">>,
     company |-> StrV(<<"P","h","i","l","i","p","p","i","n","e"," ","N","e","t","w","o","r","k"," ","F","o","u","n","d","a","t","i","o","n">>)],
    [domain |-> <<"y","a","h","o","o",".","c","o","m">>,
     company |-> None],
    [domain |-> <<"g","m","a","i","l",".","c","o","m">>,
     company |-> None],
    [domain |-> <<"h","o","t","m","a","i","l",".","c","o","m">>,
     company |-> None],
    [domain |-> <<"e","d","s","a","m","a","i","l",".","c","o","m",".","p","h">>,
     company |-> None]
    >>

high_confidence_keywords ==
    {<<"d","o","c","t","o","r">>, <<"p","h","y","s","i","c","i","a","n">>,
     <<"l","a","w","y","e","r">>, <<"a","t","t","o","r","n","e","y">>,
     <<"e","n","g","i","n","e","e","r">>, <<"p","r","o","f","e","s","s","o","r">>,
     <<"t","e","a","c","h","e","r">>, <<"m","a","n","a","g","e","r">>,
     <<"d","i","r","e","c","t","o","r">>, <<"c","e","o">>}
medical_indicators == {<<"h","o","s","p","i","t","a","l">>, <<"m","e","d","i","c","a","l">>, <<"c","l","i","n","i","c">>, <<"h","e","a","l","t","h">>}
legal_indicators == {<<"l","a","w">>, <<"l","e","g","a","l">>, <<"a","t","t","o","r","n","e","y">>}
business_indicators == {<<"c","o","r","p">>, <<"i","n","c">>, <<"c","o","m","p","a","n","y">>, <<"c","o","n","s","u","l","t","i","n","g">>, <<"g","r","o","u","p">>}
text_educational_institution == <<"e","d","u","c","a","t","i","o","n","a","l"," ","i","n","s","t","i","t","u","t","i","o","n">>
text_government_agency == <<"g","o","v","e","r","n","m","e","n","t"," ","a","g","e","n","c","y">>
text_medical_institution == <<"m","e","d","i","c","a","l"," ","i","n","s","t","i","t","u","t","i","o","n">>
text_law_firm == <<"l","a","w"," ","f","i","r","m">>
text_business_corporation == <<"b","u","s","i","n","e","s","s"," ","c","o","r","p","o","r","a","t","i","o","n">>
text_ai_analysis == <<"a","i","_","a","n","a","l","y","s","i","s">>

\* s.split(sep) for a one-character sep
RECURSIVE SplitOn(_, _)
SplitOn(s, sep) ==
    IF \A i \in 1..Len(s) : s[i] # sep THEN <<s>>
    ELSE LET i == CHOOSE j \in 1..Len(s) : s[j] = sep /\ \A k \in 1..(j - 1) : s[k] # sep
         IN <<SubSeq(s, 1, i - 1)>> \o SplitOn(SubSeq(s, i + 1, Len(s)), sep)

\* the company COMPANY_DOMAINS gives for the domain, None when it gives none
CompanyOfDomain(domain) ==
    IF \E i \in DOMAIN COMPANY_DOMAINS : COMPANY_DOMAINS[i].domain = domain
    THEN COMPANY_DOMAINS[CHOOSE i \in DOMAIN COMPANY_DOMAINS :
                            COMPANY_DOMAINS[i].domain = domain].company
    ELSE None

\* the text a domain stands for when it names no known company
DomainStructure(domain, domain_parts) ==
    IF \E i \in DOMAIN domain_parts : domain_parts[i] = <<"e","d","u">>
    THEN StrV(text_educational_institution)
    ELSE IF \E i \in DOMAIN domain_parts : domain_parts[i] = <<"g","o","v">>
    THEN StrV(text_government_agency)
    ELSE IF \E indicator \in medical_indicators : Contains(domain, indicator)
    THEN StrV(text_medical_institution)
    ELSE IF \E indicator \in legal_indicators : Contains(domain, indicator)
    THEN StrV(text_law_firm)
    ELSE IF \E indicator \in business_indicators : Contains(domain, indicator)
    THEN StrV(text_business_corporation)
    ELSE None

DomainInfo(domain) ==
    IF Truthy(CompanyOfDomain(domain)) THEN CompanyOfDomain(domain)
    ELSE DomainStructure(domain, SplitOn(domain, "."))

\* ProfessionInferencer._analyze_email_domain
analyze_email_domain(email) ==
    IF ~Contains(email, <<"@">>) THEN None
    ELSE DomainInfo(lower(SplitOn(email, "@")[2]))

\* one entry of text_sources, when the field of the member is filled
TextSource(source_type, value) ==
    IF Truthy(value) THEN <<[source_type |-> source_type, text |-> value.s]>> ELSE <<>>

\* the text_sources infer_profession_info collects, in its order
text_sources_of(member_data) ==
    TextSource("email_domain",
               IF Truthy(Get(member_data, "primary_email"))
               THEN analyze_email_domain(Get(member_data, "primary_email").s)
               ELSE None)
    \o TextSource("company_name", Get(member_data, "current_company"))
    \o TextSource("job_title", Get(member_data, "current_profession"))
    \o TextSource("office_address", Get(member_data, "office_address_full"))

\* _get_source_weight(source_type, ''), in tenths
get_source_weight(source_type) ==
    CASE source_type = "job_title" -> 10
      [] source_type = "company_name" -> 8
      [] source_type = "email_domain" -> 6
      [] source_type = "office_address" -> 4
      [] OTHER -> 5

\* the units of the first n keywords that occur in the text
RECURSIVE KeywordUnits(_, _, _)
KeywordUnits(text_lower, keywords, n) ==
    IF n = 0 THEN 0
    ELSE KeywordUnits(text_lower, keywords, n - 1)
         + (IF Contains(text_lower, lower(keywords[n]))
            THEN (IF lower(keywords[n]) \in high_confidence_keywords THEN 3 ELSE 2)
            ELSE 0)

\* _analyze_text_for_profession: the normalized score of the profession in
\* the text, in units of 1 / (2 * len(keywords)); 0 when no keyword occurs
analyze_text_for_profession(text, keywords) ==
    LET units == KeywordUnits(lower(text), keywords, Len(keywords))
    IN IF units < 2 * Len(keywords) THEN units ELSE 2 * Len(keywords)

RECURSIVE SumUpTo(_, _)
SumUpTo(f, n) == IF n = 0 THEN 0 ELSE f[n] + SumUpTo(f, n - 1)

\* the aggregated scores of infer_profession_info: for every profession the
\* first source that scored it (0 when none did) and its weighted average
\* num / den as _determine_best_profession computes it
final_scores_of(text_sources) ==
    [p \in DOMAIN PROFESSION_KEYWORDS |->
        LET units == [s \in DOMAIN text_sources |->
                        analyze_text_for_profession(text_sources[s].text,
                                                    PROFESSION_KEYWORDS[p].keywords)]
            scored == {s \in DOMAIN text_sources : units[s] > 0}
        IN [first |-> IF scored = {} THEN 0
                      ELSE CHOOSE s \in scored : \A r \in scored : s <= r,
            num |-> SumUpTo([s \in DOMAIN text_sources |->
                               units[s] * get_source_weight(text_sources[s].source_type)],
                            Len(text_sources)),
            den |-> 2 * Len(PROFESSION_KEYWORDS[p].keywords)
                    * SumUpTo([s \in DOMAIN text_sources |->
                                 IF units[s] > 0
                                 THEN get_source_weight(text_sources[s].source_type)
                                 ELSE 0],
                              Len(text_sources))]]

\* max(final_scores, key=final_scores.get): the profession with the greatest
\* score, the one entered first into the dict among equals; 0 when the dict
\* is empty
BestOf(final_scores) ==
    LET scored == {p \in DOMAIN final_scores : final_scores[p].first > 0}
        Greater(p, q) == final_scores[p].num * final_scores[q].den
                         > final_scores[q].num * final_scores[p].den
        Earlier(p, q) == \/ final_scores[p].first < final_scores[q].first
                         \/ final_scores[p].first = final_scores[q].first /\ p <= q
    IN IF scored = {} THEN 0
       ELSE CHOOSE p \in scored :
                \A q \in scored : Greater(p, q) \/ (~Greater(q, p) /\ Earlier(p, q))

\* the entries for a best profession scored num / den, set whatever the score
InferenceOf_no_threshold(profession, num, den) ==
    [k \in {"inferred_profession", "inferred_profession_confidence",
            "inferred_profession_source", "inferred_service_category",
            "inferred_service_category_confidence"} |->
        CASE k \in {"inferred_profession", "inferred_service_category"} -> StrV(profession)
          [] k = "inferred_profession_source" -> StrV(text_ai_analysis)
          [] OTHER -> FloatV((10000 * num) \div den)]

\* if best_profession and best_confidence >= 0.5: the inferred entries, with
\* the confidence in ten-thousandths
InferenceOf(profession, num, den) ==
    IF 2 * num >= den THEN InferenceOf_no_threshold(profession, num, den)
    ELSE EmptyDict

InferenceFrom(final_scores, best) ==
    IF best = 0 THEN EmptyDict
    ELSE InferenceOf(PROFESSION_KEYWORDS[best].profession,
                     final_scores[best].num, final_scores[best].den)

InferenceFromScores(final_scores) == InferenceFrom(final_scores, BestOf(final_scores))

\* ProfessionInferencer.infer_profession_info: the profession entries of its
\* result.  The specialization and work-location entries, which neither
\* depend on the profession entries nor change them, are left out.
infer_profession_info(member_data) ==
    InferenceFromScores(final_scores_of(text_sources_of(member_data)))

\* _normalize_member_data, the name: full_name_normalized is set when there
\* is a full_name
WithNormalizedName(member_data) ==
    IF Truthy(Get(member_data, "full_name"))
    THEN DictUpdate(member_data,
            [k \in {"full_name_normalized"} |->
                StrV(normalize_name(member_data["full_name"].s))])
    ELSE member_data

\* the two city fields for the city that extract_city found
CityFields(home_city) ==
    [k \in {"home_address_city", "home_address_city_normalized"} |->
        IF k = "home_address_city" THEN StrV(home_city)
        ELSE StrV(normalize_location(home_city))]

\* _normalize_member_data, the location: set when there is a home address
WithCity(member_data) ==
    IF Truthy(Get(member_data, "home_address_full"))
    THEN DictUpdate(member_data,
            CityFields(extract_city(member_data["home_address_full"].s)))
    ELSE member_data

\* _normalize_member_data, the inferred profession fields and the two scores
WithInferred(member_data) ==
    DictUpdate(member_data, infer_profession_info(member_data))

WithCompleteness(member_data) ==
    DictUpdate(member_data, [k \in {"data_completeness_score"} |->
                                calculate_completeness_score(member_data)])

WithConfidence(member_data) ==
    DictUpdate(member_data, [k \in {"confidence_score"} |->
                                calculate_confidence_score(member_data)])

\* _normalize_member_data
normalize_member_data(raw_data) ==
    WithConfidence(WithCompleteness(WithInferred(WithCity(WithNormalizedName(raw_data)))))

\* the first id of results whose name is more than 80% similar, 0 if none
RECURSIVE FirstSimilar(_, _, _)
FirstSimilar(ms, results, name) ==
    IF results = <<>> THEN 0
    ELSE IF calculate_name_similarity(name, ms[Head(results)]["full_name_normalized"].s) > 80
         THEN Head(results)
         ELSE FirstSimilar(ms, Tail(results), name)

\* the name step of _find_existing_member, for one result list of the search
FindByName(ms, member_data) ==
    IF Truthy(Get(member_data, "full_name_normalized"))
    THEN {LET hit == FirstSimilar(ms, results, member_data["full_name_normalized"].s)
          IN [step |-> IF hit = 0 THEN "none" ELSE "name", id |-> hit] :
            results \in search_members(ms,
                [k \in {"name"} |-> member_data["full_name_normalized"].s])}
    ELSE {[step |-> "none", id |-> 0]}

\* the table as a search without the is_duplicate test would see it
Unmarked(ms) == [i \in 1..Len(ms) |-> [ms[i] EXCEPT !["is_duplicate"] = IntV(0)]]

\* _find_existing_member over searches that do not leave out the records
\* marked as duplicates
find_existing_member_among_all(ms, member_data) ==
    IF Truthy(Get(member_data, "primary_email"))
    THEN LET lists == search_members(Unmarked(ms),
                        [k \in {"email"} |-> member_data["primary_email"].s])
         IN {[step |-> "email", id |-> results[1]] : results \in {r \in lists : r # <<>>}}
            \cup (IF <<>> \in lists THEN FindByName(Unmarked(ms), member_data) ELSE {})
    ELSE FindByName(Unmarked(ms), member_data)

\* _find_existing_member: what it can return, as [step, id]; id = 0 is None
find_existing_member(ms, member_data) ==
    IF Truthy(Get(member_data, "primary_email"))
    THEN LET lists == search_members(ms,
                        [k \in {"email"} |-> member_data["primary_email"].s])
         IN {[step |-> "email", id |-> results[1]] : results \in {r \in lists : r # <<>>}}
            \cup (IF <<>> \in lists THEN FindByName(ms, member_data) ELSE {})
    ELSE FindByName(ms, member_data)

identity_fields == {"id", "created_at", "updated_at"}
\* the modelled field names that contain 'collected_date', and 'confidence'
collected_date_fields == {"email_collected_date"}
confidence_fields == {"confidence_score", "inferred_profession_confidence"}

\* FieldAdopted with the comparisons of the override rules not strict
FieldAdopted_not_strict(existing, new, field) ==
    LET new_value == new[field]
        existing_value == Get(existing, field)
    IN /\ field \notin identity_fields
       /\ new_value # None
       /\ IF ~Truthy(existing_value) THEN TRUE
          ELSE IF field \in collected_date_fields
               THEN new_value.t = "date" /\ new_value.n >= existing_value.n
          ELSE IF field \in confidence_fields
               THEN new_value.n >= existing_value.n
          ELSE StrLenOf(new_value) >= StrLenOf(existing_value)

\* whether _merge_member_data adopts new's value of field
FieldAdopted(existing, new, field) ==
    LET new_value == new[field]
        existing_value == Get(existing, field)
    IN /\ field \notin identity_fields
       /\ new_value # None
       /\ IF ~Truthy(existing_value) THEN TRUE
          ELSE IF field \in collected_date_fields
               THEN new_value.t = "date" /\ new_value.n > existing_value.n
          ELSE IF field \in confidence_fields
               THEN new_value.n > existing_value.n
          ELSE StrLenOf(new_value) > StrLenOf(existing_value)

\* whether _merge_member_data raises: a date compared with a value that is no
\* date (TypeError), float() of a date or of text that is no number
MergeRaises(existing, new) ==
    \E field \in DOMAIN new :
        LET new_value == new[field]
            existing_value == Get(existing, field)
        IN /\ field \notin identity_fields
           /\ new_value # None
           /\ Truthy(existing_value)
           /\ \/ /\ field \in collected_date_fields
                 /\ new_value.t = "date"
                 /\ existing_value.t # "date"
              \/ /\ field \notin collected_date_fields
                 /\ field \in confidence_fields
                 /\ \/ new_value.t \notin {"int", "float"}
                    \/ existing_value.t \notin {"int", "float"}

\* _merge_member_data: the updates dict
merge_member_data(existing, new) ==
    [field \in {f \in DOMAIN new : FieldAdopted(existing, new, f)} |-> new[field]]

\* a dict(row) / a found record is truthy; None is not
IsRow(r) == "id" \in DOMAIN r

\* the loop of merge_duplicates, inside its open transaction: each UPDATE takes
\* the write lock of the connection, and log_change then runs against it
RECURSIVE MergeLoop(_, _, _, _)
MergeLoop(ms, log, primary_id, duplicate_ids) ==
    IF duplicate_ids = <<>> THEN [members |-> ms, change_log |-> log]
    ELSE LET dup_id == Head(duplicate_ids)
             marked == update_member(ms, dup_id,
                          [c \in {"is_duplicate", "primary_record_id"} |->
                              IF c = "is_duplicate" THEN IntV(1) ELSE IntV(primary_id)])
             logged == log_change(log, TRUE, dup_id, "record_status", "MERGE",
                                  "duplicate_merge")
         IN MergeLoop(marked, logged, primary_id, Tail(duplicate_ids))

\* merge_duplicates with the primary looked up only after the loop has run
\* and its writes are kept
merge_duplicates_late_lookup(ms, log, primary_id, duplicate_ids) ==
    LET primary == get_member_by_id(ms, primary_id)
        done == MergeLoop(ms, log, primary_id, duplicate_ids)
    IN [raised |-> ~IsRow(primary), members |-> done.members,
        change_log |-> done.change_log]

\* merge_duplicates: whether it raised, and the tables after it (a raise rolls
\* the transaction back, a return commits it)
merge_duplicates(ms, log, primary_id, duplicate_ids) ==
    LET primary == get_member_by_id(ms, primary_id)
        done == MergeLoop(ms, log, primary_id, duplicate_ids)
    IN IF ~IsRow(primary)
       THEN [raised |-> TRUE, members |-> ms, change_log |-> log]
       ELSE [raised |-> FALSE, members |-> done.members, change_log |-> done.change_log]

\* delete_member / restore_member: UPDATE members SET is_active = ... WHERE id
set_active(ms, member_id, flag) ==
    update_member(ms, member_id, [c \in {"is_active"} |-> IntV(flag)])

----------------------------------------------------------------------------
(* The inputs of the model *)

MaxOps == 3        \* operations in one behaviour of Spec
MaxMergeOps == 5   \* operations in one behaviour of SpecMerge
MaxDupIds == 2     \* length of the duplicate_ids list of a merge request
MaxRows == 3       \* rows of the source of a re-ingestion run

name_DrAlCu == <<"D","r","."," ","A","l"," ","C","u">>
name_AlCruz == <<"A","l"," ","C","r","u","z">>
email_a == <<"a","@","x",".","p","h">>
addr_Makati == <<"M","a","k","a","t","i"," ","C","i","t","y">>
addr_Ortigas == <<"9"," ","R","d",","," ","O","r","t","i","g","a","s">>
mobile_09 == <<"0","9">>
file_name == <<"m",".","c","s","v">>
admin_manual_add == <<"a","d","m","i","n","_","m","a","n","u","a","l","_","a","d","d">>
admin_manual_edit == <<"a","d","m","i","n","_","m","a","n","u","a","l","_","e","d","i","t">>
admin_manual_entry == <<"a","d","m","i","n","_","m","a","n","u","a","l","_","e","n","t","r","y">>

\* "absent": the source row has no such column / the form field is left empty
Absent == [t |-> "absent", s |-> <<>>, n |-> 0]

\* a raw field map, as the file readers hand it to _import_member: the chosen
\* fields plus the file metadata.  Of the metadata (_add_file_metadata) only
\* source_file_name is kept: the dates and the path of one file have the same
\* printed length on every import, so a merge treats them as it treats the
\* file name and never adopts them over a stored value.
RawRow(name, email, address) ==
    LET chosen == [k \in {"full_name", "primary_email", "home_address_full"} |->
                      IF k = "full_name" THEN name
                      ELSE IF k = "primary_email" THEN email ELSE address]
    IN [k \in {f \in DOMAIN chosen : chosen[f] # Absent} \cup {"source_file_name"} |->
            IF k = "source_file_name" THEN StrV(file_name) ELSE chosen[k]]

Names == {StrV(name_DrAlCu), StrV(name_AlCruz)}
Emails == {StrV(email_a)}
Addresses == {StrV(addr_Makati), StrV(addr_Ortigas)}

\* the rows a source can hold: a row without name and e-mail is discarded
\* by the readers (_extract_member_from_excel_row)
Rows ==
    {RawRow(name, email, address) :
        name \in Names \cup {Absent}, email \in Emails \cup {Absent},
        address \in Addresses \cup {Absent}}
    \ {RawRow(Absent, Absent, address) : address \in Addresses \cup {Absent}}

\* what the administrator can type into a field of a form; <<>> leaves it empty
FormNames == {<<>>, name_DrAlCu}
FormEmails == {<<>>, email_a}
FormMobiles == {<<>>, mobile_09}
FormAddresses == {<<>>, addr_Makati, addr_Ortigas}

----------------------------------------------------------------------------
(* The operations *)

\* DataProcessor.stats as __init__ sets it
InitStats == [files_processed |-> 0, records_found |-> 0, records_imported |-> 0,
              records_updated |-> 0, duplicates_found |-> 0, errors |-> <<>>]

\* no import_all_files call is in progress
NoRun == [pc |-> "idle", calls |-> 0, batch_id |-> 0, file |-> 0, row |-> 0,
          raised |-> FALSE,
          files_done |-> 0, found |-> 0, created |-> 0, updated |-> 0,
          store_failures |-> 0, row_errors |-> 0]

\* what an operation leaves in last when it has nothing to report in a field
Idle == [op |-> "none", id |-> 0, raised |-> FALSE, step |-> "none",
         primary_id |-> 0, duplicate_ids |-> <<>>, limit |-> 0, pairs |-> {},
         existing |-> EmptyDict, new |-> EmptyDict, updates |-> EmptyDict,
         params |-> EmptyDict, results |-> <<>>, total_count |-> 0, query |-> <<>>,
         today |-> 0]

\* _import_member with find result res: the members table after it.  An
\* exception inside is caught and logged by _import_member itself.
import_member(ms, normalized_data, res) ==
    IF res.id # 0
    THEN IF MergeRaises(ms[res.id], normalized_data) THEN ms
         ELSE update_member(ms, res.id, merge_member_data(ms[res.id], normalized_data))
    ELSE insert_member(ms, normalized_data)

\* _import_member with find result res: DataProcessor.stats after it
import_stats(st, ms, normalized_data, res) ==
    IF res.id # 0
    THEN IF MergeRaises(ms[res.id], normalized_data) THEN st
         ELSE IF merge_member_data(ms[res.id], normalized_data) = EmptyDict THEN st
         ELSE [st EXCEPT !.records_updated = @ + 1]
    ELSE [st EXCEPT !.records_imported = @ + 1]

\* what _import_member reports of one run
ImportReport(ms, normalized_data, res) ==
    [Idle EXCEPT
        !.op = "import_member",
        !.id = IF res.id = 0 THEN Len(ms) + 1 ELSE res.id,
        !.step = res.step,
        !.raised = res.id # 0 /\ MergeRaises(ms[res.id], normalized_data),
        !.existing = IF res.id = 0 THEN EmptyDict ELSE ms[res.id],
        !.new = normalized_data,
        !.updates = IF res.id = 0 \/ MergeRaises(ms[res.id], normalized_data)
                    THEN EmptyDict
                    ELSE merge_member_data(ms[res.id], normalized_data)]

\* DataProcessor._import_member(member_data, batch_id)
ImportMember(raw) ==
    /\ ops < budget
    /\ LET normalized_data == normalize_member_data(raw)
       IN \E res \in find_existing_member(members, normalized_data) :
            /\ members' = import_member(members, normalized_data, res)
            /\ stats' = import_stats(stats, members, normalized_data, res)
            /\ last' = ImportReport(members, normalized_data, res)
    /\ ops' = ops + 1
    /\ UNCHANGED <<change_log, source, pass, pos, snap, budget, import_batches, run, workers>>

\* DatabaseManager.merge_duplicates(primary_id, duplicate_ids)
MergeDuplicates(primary_id, duplicate_ids) ==
    /\ ops < budget
    /\ LET r == merge_duplicates(members, change_log, primary_id, duplicate_ids)
       IN /\ members' = r.members
          /\ change_log' = r.change_log
          /\ last' = [Idle EXCEPT !.op = "merge_duplicates", !.raised = r.raised,
                                  !.primary_id = primary_id,
                                  !.duplicate_ids = duplicate_ids]
    /\ ops' = ops + 1
    /\ UNCHANGED <<source, pass, pos, snap, budget, stats, import_batches, run, workers>>

\* DatabaseManager.delete_member(member_id)
DeleteMember(member_id) ==
    /\ ops < budget
    /\ members' = set_active(members, member_id, 0)
    /\ last' = [Idle EXCEPT !.op = "delete_member", !.id = member_id]
    /\ ops' = ops + 1
    /\ UNCHANGED <<change_log, source, pass, pos, snap, budget, stats, import_batches, run, workers>>

\* DatabaseManager.restore_member(member_id)
RestoreMember(member_id) ==
    /\ ops < budget
    /\ members' = set_active(members, member_id, 1)
    /\ last' = [Idle EXCEPT !.op = "restore_member", !.id = member_id]
    /\ ops' = ops + 1
    /\ UNCHANGED <<change_log, source, pass, pos, snap, budget, stats, import_batches, run, workers>>

\* value.strip() if value else None
StripOrNone(chars) == IF chars = <<>> THEN None ELSE StrV(strip(chars))

\* the e-mail check of show_add_member_form: some active, non-duplicate record
\* has the address as its primary or secondary e-mail
EmailExists(ms, email) ==
    \E i \in 1..Len(ms) :
        /\ ms[i]["is_active"] = IntV(1)
        /\ ms[i]["is_duplicate"] = IntV(0)
        /\ ms[i]["primary_email"] = StrV(email) \/ ms[i]["secondary_email"] = StrV(email)

\* why show_add_member_form refuses the form, "none" if it accepts it
AddRefusal(ms, new_full_name, new_email, new_mobile, new_home_address) ==
    IF strip(new_full_name) = <<>> THEN "name_required"
    ELSE IF strip(new_mobile) = <<>> THEN "mobile_required"
    ELSE IF strip(new_home_address) = <<>> THEN "address_required"
    ELSE IF strip(new_email) # <<>> /\ EmailExists(ms, strip(new_email)) THEN "email_exists"
    ELSE "none"

\* the member_data show_add_member_form builds from an accepted form
AddMemberData(new_full_name, new_email, new_secondary_email, new_mobile, new_home_address) ==
    LET home_city == extract_city(new_home_address)
    IN [k \in {"full_name", "full_name_normalized", "primary_email", "secondary_email",
               "mobile_phone", "current_profession", "school_chapter",
               "home_address_full", "home_address_city", "home_address_city_normalized",
               "created_by", "source_file_name", "confidence_score",
               "data_completeness_score"} |->
        CASE k = "full_name" -> StrV(strip(new_full_name))
          [] k = "full_name_normalized" -> StrV(lower(strip(new_full_name)))
          [] k = "primary_email" -> StripOrNone(strip(new_email))
          [] k = "secondary_email" -> StripOrNone(new_secondary_email)
          [] k = "mobile_phone" -> StripOrNone(new_mobile)
          [] k = "home_address_full" -> StripOrNone(new_home_address)
          [] k = "home_address_city" -> StrV(home_city)
          [] k = "home_address_city_normalized" -> StrV(normalize_location(home_city))
          [] k = "created_by" -> StrV(admin_manual_add)
          [] k = "source_file_name" -> StrV(admin_manual_entry)
          [] k = "confidence_score" -> FloatV(3000)
          [] k = "data_completeness_score" -> FloatV(2400)
          [] OTHER -> None]

\* show_add_member_form, on "Add Member"
AdminAdd(new_full_name, new_email, new_secondary_email, new_mobile, new_home_address) ==
    /\ ops < budget
    /\ LET refusal == AddRefusal(members, new_full_name, new_email, new_mobile,
                                 new_home_address)
           member_data == AddMemberData(new_full_name, new_email, new_secondary_email,
                                        new_mobile, new_home_address)
           member_id == Len(members) + 1
       IN IF refusal # "none"
          THEN /\ UNCHANGED <<members, change_log>>
               /\ last' = [Idle EXCEPT !.op = "admin_add", !.step = refusal]
          ELSE /\ members' = insert_member(members, member_data)
               /\ change_log' = log_change(change_log, FALSE, member_id,
                                           "record_created", "INSERT", "admin_manual_add")
               /\ last' = [Idle EXCEPT !.op = "admin_add", !.id = member_id,
                                       !.new = member_data]
    /\ ops' = ops + 1
    /\ UNCHANGED <<source, pass, pos, snap, budget, stats, import_batches, run, workers>>

\* member.get(field) or ''
OrEmpty(v) == IF Truthy(v) THEN v.s ELSE <<>>

\* the updates show_member_editor collects from the form, in the order it
\* collects them, as <<field, value>> pairs
EditChanges(member, new_name, new_email, new_home_address) ==
    (IF StrV(new_name) # member["full_name"]
     THEN << <<"full_name", StrV(new_name)>>,
             <<"full_name_normalized", StrV(strip(lower(new_name)))>> >>
     ELSE <<>>)
    \o (IF new_email # OrEmpty(member["primary_email"])
        THEN << <<"primary_email", IF new_email # <<>> THEN StrV(new_email) ELSE None>> >>
        ELSE <<>>)
    \o (IF new_home_address # OrEmpty(member["home_address_full"])
        THEN << <<"home_address_full",
                  IF new_home_address # <<>> THEN StrV(new_home_address) ELSE None>> >>
        ELSE <<>>)

\* the change log after one UPDATE entry for each changed field
RECURSIVE LogChanges(_, _, _)
LogChanges(log, member_id, changes) ==
    IF changes = <<>> THEN log
    ELSE LogChanges(log_change(log, FALSE, member_id, Head(changes)[1], "UPDATE",
                               "admin_manual_edit"),
                    member_id, Tail(changes))

\* show_member_editor, on "Save Changes"
AdminEdit(member_id, new_name, new_email, new_home_address) ==
    /\ ops < budget
    /\ member_id \in 1..Len(members)
    /\ LET changes == EditChanges(members[member_id], new_name, new_email,
                                  new_home_address)
           updates == [k \in {changes[i][1] : i \in 1..Len(changes)} \cup {"updated_by"} |->
                          IF k = "updated_by" THEN StrV(admin_manual_edit)
                          ELSE LET i == CHOOSE j \in 1..Len(changes) : changes[j][1] = k
                               IN changes[i][2]]
       IN IF changes = <<>>
          THEN /\ UNCHANGED <<members, change_log>>
               /\ last' = [Idle EXCEPT !.op = "admin_edit", !.id = member_id]
          ELSE /\ members' = update_member(members, member_id, updates)
               /\ change_log' = LogChanges(change_log, member_id, changes)
               /\ last' = [Idle EXCEPT !.op = "admin_edit", !.id = member_id,
                                       !.existing = members[member_id],
                                       !.updates = updates]
    /\ ops' = ops + 1
    /\ UNCHANGED <<source, pass, pos, snap, budget, stats, import_batches, run, workers>>

\* the names the administrator can leave in the name field of the edit form
EditNames(member) ==
    {name_DrAlCu} \cup (IF member["full_name"].t = "str" THEN {member["full_name"].s} ELSE {})

\* the ids a request can name: the stored ones and one that is not stored
RequestIds == 1..(Len(members) + 1)

\* the duplicate_ids lists of a merge request
DuplicateIdLists == UNION {[1..n -> RequestIds] : n \in 0..MaxDupIds}

Init ==
    /\ members = <<>>
    /\ change_log = <<>>
    /\ last = Idle
    /\ source = <<>>
    /\ pass = 0
    /\ pos = 0
    /\ snap = <<>>
    /\ ops = 0
    /\ budget = MaxOps
    /\ stats = InitStats
    /\ import_batches = <<>>
    /\ run = NoRun
    /\ workers = <<>>

Next ==
    \/ \E raw \in Rows : ImportMember(raw)
    \/ \E primary_id \in RequestIds, duplicate_ids \in DuplicateIdLists :
            MergeDuplicates(primary_id, duplicate_ids)
    \/ \E member_id \in RequestIds : DeleteMember(member_id)
    \/ \E member_id \in RequestIds : RestoreMember(member_id)
    \/ \E new_full_name \in FormNames, new_email \in FormEmails,
          new_secondary_email \in FormEmails, new_mobile \in FormMobiles,
          new_home_address \in FormAddresses :
            AdminAdd(new_full_name, new_email, new_secondary_email, new_mobile,
                     new_home_address)
    \/ \E member_id \in 1..Len(members) :
          \E new_name \in EditNames(members[member_id]), new_email \in FormEmails,
             new_home_address \in FormAddresses :
            AdminEdit(member_id, new_name, new_email, new_home_address)

Spec == Init /\ [][Next]_vars

----------------------------------------------------------------------------
(* Merging duplicates: records are added through the admin form, then merged *)

InitMerge ==
    /\ members = <<>>
    /\ change_log = <<>>
    /\ last = Idle
    /\ source = <<>>
    /\ pass = 0
    /\ pos = 0
    /\ snap = <<>>
    /\ ops = 0
    /\ budget = MaxMergeOps
    /\ stats = InitStats
    /\ import_batches = <<>>
    /\ run = NoRun
    /\ workers = <<>>

NextMerge ==
    \/ AdminAdd(name_DrAlCu, <<>>, <<>>, mobile_09, addr_Makati)
    \/ \E primary_id \in RequestIds, duplicate_ids \in DuplicateIdLists :
            MergeDuplicates(primary_id, duplicate_ids)

SpecMerge == InitMerge /\ [][NextMerge]_vars

----------------------------------------------------------------------------
(* Ingesting one source twice (import_all_files run twice on the same files) *)

\* the rows of a source: name and e-mail, each present or not
SourceRows ==
    {RawRow(name, email, Absent) : name \in Names \cup {Absent},
                                   email \in Emails \cup {Absent}}
    \ {RawRow(Absent, Absent, Absent)}

Sources == UNION {[1..n -> SourceRows] : n \in 1..MaxRows}

InitReingest ==
    /\ members = <<>>
    /\ change_log = <<>>
    /\ last = Idle
    /\ source \in Sources
    /\ pass = 1
    /\ pos = 1
    /\ snap = <<>>
    /\ ops = 0
    /\ budget = 0
    /\ stats = InitStats
    /\ import_batches = <<>>
    /\ run = NoRun
    /\ workers = <<>>

\* _process_file handing the next row of the source to _import_member; after
\* the last row the pass ends, and the second pass starts from the first row
ImportNextRow ==
    /\ pass \in {1, 2}
    /\ LET normalized_data == normalize_member_data(source[pos])
       IN \E res \in find_existing_member(members, normalized_data) :
            /\ members' = import_member(members, normalized_data, res)
            /\ stats' = [import_stats(stats, members, normalized_data, res)
                            EXCEPT !.records_found = @ + 1]
            /\ last' = ImportReport(members, normalized_data, res)
    /\ IF pos = Len(source)
       THEN /\ pass' = pass + 1
            /\ pos' = 1
            /\ snap' = IF pass = 1 THEN members' ELSE snap
       ELSE /\ pos' = pos + 1
            /\ UNCHANGED <<pass, snap>>
    /\ UNCHANGED <<change_log, source, ops, budget, import_batches, run, workers>>

SpecReingest == InitReingest /\ [][ImportNextRow]_vars

----------------------------------------------------------------------------
(* _merge_member_data on its own, over a range of records and field maps *)

text_A == <<"A">>
text_Al == <<"A","l">>

\* a map with the fields whose value is not Absent
Present(d) == [k \in {f \in DOMAIN d : d[f] # Absent} |-> d[k]]

\* stored records: id and created_at are always set, the rest may be empty
ExistingRecords ==
    {[id |-> IntV(1), created_at |-> StrV(text_Al), full_name |-> full_name,
      email_collected_date |-> email_collected_date,
      confidence_score |-> confidence_score] :
        full_name \in {None, StrV(<<>>), StrV(text_A), StrV(text_Al)},
        email_collected_date \in {None, DateV(1), DateV(2), StrV(text_Al)},
        confidence_score \in {None, FloatV(0), FloatV(500), FloatV(1000)}}

\* incoming field maps: any field may be missing, None, or set
IncomingMaps ==
    {Present([id |-> id, created_at |-> created_at, full_name |-> full_name,
              email_collected_date |-> email_collected_date,
              confidence_score |-> confidence_score]) :
        id \in {Absent, IntV(2)},
        created_at \in {Absent, StrV(text_A)},
        full_name \in {Absent, None, StrV(<<>>), StrV(text_A), StrV(text_Al)},
        email_collected_date \in {Absent, None, DateV(1), DateV(2), StrV(text_A)},
        confidence_score \in {Absent, None, FloatV(0), FloatV(500), FloatV(1000)}}

InitMergeFields ==
    /\ members = <<>>
    /\ change_log = <<>>
    /\ \E existing \in ExistingRecords, new \in IncomingMaps :
            last = [Idle EXCEPT !.op = "inputs", !.existing = existing, !.new = new]
    /\ source = <<>>
    /\ pass = 0
    /\ pos = 0
    /\ snap = <<>>
    /\ ops = 0
    /\ budget = 0
    /\ stats = InitStats
    /\ import_batches = <<>>
    /\ run = NoRun
    /\ workers = <<>>

\* self._merge_member_data(existing, normalized_data)
MergeMemberData ==
    /\ last.op = "inputs"
    /\ last' = [last EXCEPT
                  !.op = "merge_member_data",
                  !.raised = MergeRaises(last.existing, last.new),
                  !.updates = IF MergeRaises(last.existing, last.new) THEN EmptyDict
                              ELSE merge_member_data(last.existing, last.new)]
    /\ UNCHANGED <<members, change_log, source, pass, pos, snap, ops, budget, stats, import_batches, run, workers>>

SpecMergeFields == InitMergeFields /\ [][MergeMemberData]_vars

----------------------------------------------------------------------------
(* Claims about merge_duplicates, checked under SpecMerge *)

IsDuplicate(row) == row["is_duplicate"] = IntV(1)
Stored(member_id) == member_id \in 1..Len(members)
\* the record that row names as its primary is stored
HasStoredPrimary(row) ==
    row["primary_record_id"].t = "int" /\ Stored(row["primary_record_id"].n)
\* the merge that last describes has just run
MergeReturned == last.op = "merge_duplicates" /\ ~last.raised
DuplicateIdsOf(request) == {request.duplicate_ids[k] : k \in 1..Len(request.duplicate_ids)}

\* C1: after any sequence of merge_duplicates calls, no record marked as a
\* duplicate has a primary_record_id that refers to a record that is itself
\* marked as a duplicate.
C1_NoDuplicateAsPrimary ==
    \A i \in 1..Len(members) :
        IsDuplicate(members[i]) /\ HasStoredPrimary(members[i])
            => ~IsDuplicate(members[members[i]["primary_record_id"].n])

\* a chain of two different records: a duplicate whose primary is another
\* record that is a duplicate as well
C1_ChainReached ==
    \E i, j \in 1..Len(members) :
        /\ i # j
        /\ IsDuplicate(members[i])
        /\ members[i]["primary_record_id"] = IntV(j)
        /\ IsDuplicate(members[j])

\* C2: in every state reachable through merge_duplicates calls, a record is
\* marked as a duplicate if and only if its primary_record_id is set, and that
\* primary_record_id names a stored record other than the record itself.
C2_DuplicateIffDistinctPrimary ==
    \A i \in 1..Len(members) :
        /\ IsDuplicate(members[i]) <=> members[i]["primary_record_id"] # None
        /\ members[i]["primary_record_id"] # None
              => HasStoredPrimary(members[i]) /\ members[i]["primary_record_id"].n # i

\* C3: merge_duplicates called with a primary_id that matches no stored record
\* raises, and leaves every member record and the change log exactly as they
\* were before the call, whatever the list of duplicate_ids is.
C3_MissingPrimaryChangesNothing ==
    [][(/\ ops' = ops + 1
        /\ last'.op = "merge_duplicates"
        /\ ~Stored(last'.primary_id))
            => (last'.raised /\ members' = members /\ change_log' = change_log)]_vars

\* a merge against a primary that is not stored has been refused, while it
\* named a stored record as a duplicate and the change log was in use
C3_RefusedMergeReached ==
    /\ last.op = "merge_duplicates"
    /\ last.raised
    /\ ~Stored(last.primary_id)
    /\ \E d \in DuplicateIdsOf(last) : Stored(d)
    /\ change_log # <<>>

\* C4: after merge_duplicates(primary_id, duplicate_ids) returns, every stored
\* record whose id is in duplicate_ids is marked as a duplicate of primary_id,
\* and the change log holds a MERGE entry for each of those ids.
C4_MergeMarksAndLogs ==
    MergeReturned =>
        \A d \in DuplicateIdsOf(last) :
            Stored(d) =>
                /\ IsDuplicate(members[d])
                /\ members[d]["primary_record_id"] = IntV(last.primary_id)
                /\ \E k \in 1..Len(change_log) :
                      change_log[k].member_id = d /\ change_log[k].change_type = "MERGE"

\* the half of C4 that the UPDATE statements give: the records are marked
C4_MergeMarks ==
    MergeReturned =>
        \A d \in DuplicateIdsOf(last) :
            Stored(d) =>
                /\ IsDuplicate(members[d])
                /\ members[d]["primary_record_id"] = IntV(last.primary_id)

\* a merge has returned that named a stored record as a duplicate
C4_MergeReturnedReached ==
    MergeReturned /\ \E d \in DuplicateIdsOf(last) : Stored(d)

----------------------------------------------------------------------------
(* Claim about re-ingestion, checked under SpecReingest *)

\* C5: ingesting the same unchanged sequence of source rows a second time,
\* with nothing in between, inserts no new record: from the end of the first
\* pass on, the members table holds as many records as the first pass left.
C5_SecondPassInsertsNothing ==
    pass \in {2, 3} => Len(members) = Len(snap)

\* the second pass over a source has run to its end
C5_SecondPassDone == pass = 3 /\ Len(source) > 1

----------------------------------------------------------------------------
(* Claim about _merge_member_data, checked under SpecMergeFields *)

MergeComputed == last.op = "merge_member_data" /\ ~last.raised

\* one of the three override rules lets incoming replace a non-empty held value
OverrideRuleHolds(field, held, incoming) ==
    \/ /\ field \in collected_date_fields
       /\ incoming.t = "date" /\ held.t = "date" /\ incoming.n > held.n
    \/ /\ field \notin collected_date_fields
       /\ field \in confidence_fields
       /\ incoming.n > held.n
    \/ /\ field \notin collected_date_fields \cup confidence_fields
       /\ StrLenOf(incoming) > StrLenOf(held)

\* C6: the update set computed by _merge_member_data never contains a null
\* value and never contains id, created_at or updated_at; a field for which
\* the existing record holds a non-empty value is in the update set only if
\* one of the three override rules holds for it (a strictly more recent
\* collected date, a strictly greater confidence, a strictly longer string).
C6_UpdatesFollowOverrideRules ==
    MergeComputed =>
        \A field \in DOMAIN last.updates :
            /\ last.updates[field] # None
            /\ field \notin {"id", "created_at", "updated_at"}
            /\ Truthy(Get(last.existing, field))
                  => OverrideRuleHolds(field, last.existing[field], last.updates[field])

\* a merge where the incoming map names id and created_at, replaces a held
\* name by a longer one, and offers a confidence that is not adopted
C6_OverrideReached ==
    /\ MergeComputed
    /\ {"id", "created_at", "confidence_score"} \subseteq DOMAIN last.new
    /\ Truthy(last.existing["full_name"])
    /\ "full_name" \in DOMAIN last.updates
    /\ Truthy(last.existing["confidence_score"])
    /\ last.new["confidence_score"] # None
    /\ "confidence_score" \notin DOMAIN last.updates

----------------------------------------------------------------------------
(* Claims about the whole directory, checked under Spec *)

\* the normalized fields of row are the ones its raw fields give
NormalizedFromRaw(row) ==
    /\ IF Truthy(row["full_name"])
       THEN row["full_name_normalized"] = StrV(normalize_name(row["full_name"].s))
       ELSE ~Truthy(row["full_name_normalized"])
    /\ IF Truthy(row["home_address_full"])
       THEN row["home_address_city_normalized"]
              = StrV(normalize_location(extract_city(row["home_address_full"].s)))
       ELSE ~Truthy(row["home_address_city_normalized"])

\* the record was created by an ingestion (the admin form sets created_by)
Ingested(row) == row["created_by"] = None

\* C7: after any sequence of ingestions and administrative edits, every stored
\* record has full_name_normalized = normalize_name(full_name) and
\* home_address_city_normalized = normalize_location(extract_city(address)).
C7_NormalizedFieldsFollowRaw ==
    \A i \in 1..Len(members) : Ingested(members[i]) => NormalizedFromRaw(members[i])

\* an ingestion has merged a row into an ingested record that was consistent,
\* and the record no longer is
C7_MergeDivergedReached ==
    /\ last.op = "import_member"
    /\ last.step # "none"
    /\ Ingested(last.existing)
    /\ NormalizedFromRaw(last.existing)
    /\ ~NormalizedFromRaw(members[last.id])

\* the scores of row are the ones its current fields give
ScoresFromFields(row) ==
    LET completeness == calculate_completeness_score(row)
    IN /\ row["data_completeness_score"] = completeness
       /\ row["confidence_score"] =
            calculate_confidence_score(
                DictUpdate(row, [k \in {"data_completeness_score"} |-> completeness]))

\* the last operation was an ingestion that merged into a record and changed
\* one of the fields the scores are computed from
MergeChangedContributingField ==
    /\ last.op = "import_member"
    /\ last.step # "none"
    /\ ~last.raised
    /\ \E f \in required_fields \cap DOMAIN last.updates :
            last.updates[f] # last.existing[f]

\* C8: after an ingestion has merged incoming data into an existing record and
\* changed a contributing field, the stored data_completeness_score is the
\* number of non-empty required fields divided by 6, and the stored
\* confidence_score is the weighted formula on the stored values.
C8_ScoresRecomputedOnMerge ==
    MergeChangedContributingField => ScoresFromFields(members[last.id])

\* such a merge, into a record whose scores were right before it
C8_StaleScoresReached ==
    /\ MergeChangedContributingField
    /\ ScoresFromFields(last.existing)
    /\ ~ScoresFromFields(members[last.id])

\* C9: every operation that changes a stored member record appends at least
\* one change-log entry for that record.
C9_EveryChangeIsLogged ==
    [][\A i \in 1..Len(members') :
          (i > Len(members) \/ members'[i] # members[i])
              => \E k \in (Len(change_log) + 1)..Len(change_log') :
                    change_log'[k].member_id = i]_vars

\* an administrative edit has changed a record and logged it
C9_LoggedEditReached ==
    /\ last.op = "admin_edit"
    /\ DOMAIN last.updates # {}
    /\ \E k \in 1..Len(change_log) :
          change_log[k].member_id = last.id /\ change_log[k].change_type = "UPDATE"

\* C10: a record that _find_existing_member returns through the exact-email
\* step is non-duplicate, active, and has the candidate's primary_email as its
\* own primary_email.
C10_EmailStepReturnsActivePrimary ==
    (last.op = "import_member" /\ last.step = "email") =>
        /\ last.existing["is_duplicate"] = IntV(0)
        /\ last.existing["is_active"] = IntV(1)
        /\ last.existing["primary_email"] = last.new["primary_email"]

\* the exact-email step has returned a soft-deleted record
C10_SoftDeletedReturned ==
    /\ last.op = "import_member"
    /\ last.step = "email"
    /\ last.existing["is_active"] = IntV(0)

\* the exact-email step has returned a record that holds the address only as
\* its secondary_email
C10_SecondaryOnlyReturned ==
    /\ last.op = "import_member"
    /\ last.step = "email"
    /\ last.existing["primary_email"] # last.new["primary_email"]
    /\ last.existing["secondary_email"] = last.new["primary_email"]

----------------------------------------------------------------------------
(* _find_existing_member on its own, over a range of stores and candidates *)

name_Al == <<"A","l">>
name_AlCu == <<"A","l"," ","C","u">>
name_AlCuz == <<"A","l"," ","C","u","z">>

MaxStored == 2     \* records in a store that _find_existing_member searches

FindNames == {StrV(name_Al), StrV(name_AlCu), StrV(name_AlCuz)}

\* how a record came to stand in the store: ingested and left alone, merged
\* into record 1 as a duplicate, or soft-deleted
Statuses == {"stored", "duplicate", "deleted"}

\* a stored record: an ingested row and what happened to it afterwards
StoredRows ==
    {[row |-> RawRow(name, email, Absent), status |-> status] :
        name \in FindNames, email \in Emails \cup {Absent}, status \in Statuses}

\* the members table after the rows of recs were inserted, and merged or
\* deleted as their status says
RECURSIVE StoreOf(_, _)
StoreOf(ms, recs) ==
    IF recs = <<>> THEN ms
    ELSE LET inserted == insert_member(ms, normalize_member_data(Head(recs).row))
             member_id == Len(inserted)
             after == CASE Head(recs).status = "duplicate" ->
                              merge_duplicates(inserted, <<>>, 1, <<member_id>>).members
                        [] Head(recs).status = "deleted" -> set_active(inserted, member_id, 0)
                        [] OTHER -> inserted
         IN StoreOf(after, Tail(recs))

Candidates ==
    {RawRow(name, email, Absent) : name \in FindNames, email \in Emails \cup {Absent}}

InitFind ==
    /\ \E n \in 0..MaxStored : \E recs \in [1..n -> StoredRows] :
            members = StoreOf(<<>>, recs)
    /\ change_log = <<>>
    /\ \E raw \in Candidates :
            last = [Idle EXCEPT !.op = "inputs", !.new = normalize_member_data(raw)]
    /\ source = <<>>
    /\ pass = 0
    /\ pos = 0
    /\ snap = <<>>
    /\ ops = 0
    /\ budget = 0
    /\ stats = InitStats
    /\ import_batches = <<>>
    /\ run = NoRun
    /\ workers = <<>>

\* self._find_existing_member(normalized_data)
FindExistingMember ==
    /\ last.op = "inputs"
    /\ \E res \in find_existing_member(members, last.new) :
            last' = [last EXCEPT !.op = "find_existing_member",
                                 !.step = res.step, !.id = res.id]
    /\ UNCHANGED <<members, change_log, source, pass, pos, snap, ops, budget, stats, import_batches, run, workers>>

SpecFind == InitFind /\ [][FindExistingMember]_vars

----------------------------------------------------------------------------
(* Claim about the name step of _find_existing_member, checked under SpecFind *)

\* no stored record holds the candidate's e-mail
NoEmailMatch(candidate) ==
    \A i \in 1..Len(members) :
        /\ members[i]["primary_email"] # Get(candidate, "primary_email")
        /\ members[i]["secondary_email"] # Get(candidate, "primary_email")

\* record i is a name match of the candidate: non-duplicate, one normalized
\* name inside the other, and similarity above 0.8
NameMatch(i, candidate) ==
    LET stored == members[i]["full_name_normalized"].s
        wanted == candidate["full_name_normalized"].s
    IN /\ members[i]["is_duplicate"] = IntV(0)
       /\ Contains(stored, wanted) \/ Contains(wanted, stored)
       /\ calculate_name_similarity(wanted, stored) > 80

\* C11: when no stored record matches the candidate's e-mail,
\* _find_existing_member returns a record if and only if some stored
\* non-duplicate record's normalized name is a substring of, or contains, the
\* candidate's normalized name with similarity above 0.8; the returned record
\* is one of those.
C11_NameStepFindsContainedNames ==
    (last.op = "find_existing_member" /\ NoEmailMatch(last.new)) =>
        /\ last.id # 0 <=> \E i \in 1..Len(members) : NameMatch(i, last.new)
        /\ last.id # 0 => NameMatch(last.id, last.new)

\* the name step has returned a record
C11_NameStepReturned ==
    last.op = "find_existing_member" /\ last.step = "name" /\ NoEmailMatch(last.new)

\* the direction the search covers: a returned record is always a name match
C11_ReturnedIsNameMatch ==
    (last.op = "find_existing_member" /\ NoEmailMatch(last.new) /\ last.id # 0)
        => NameMatch(last.id, last.new)

----------------------------------------------------------------------------
(* find_potential_duplicates on its own, over a range of stores and limits *)

\* SQL m1.primary_email = m2.primary_email: NULL equals nothing
SameEmail(m1, m2) ==
    m1["primary_email"].t = "str" /\ m1["primary_email"] = m2["primary_email"]

\* m1.full_name_normalized LIKE '%' || m2.full_name_normalized || '%'
NameWithin(m1, m2) ==
    m2["full_name_normalized"].t = "str"
        /\ Like(m1["full_name_normalized"], m2["full_name_normalized"].s)

\* find_potential_duplicates with the e-mail comparison left out of the WHERE
\* clause
PairSelected_names_only(m1, m2) ==
    /\ m1["is_duplicate"] = IntV(0) /\ m2["is_duplicate"] = IntV(0)
    /\ NameWithin(m1, m2) \/ NameWithin(m2, m1)

\* the WHERE clause of find_potential_duplicates
PairSelected(m1, m2) ==
    /\ m1["is_duplicate"] = IntV(0) /\ m2["is_duplicate"] = IntV(0)
    /\ \/ SameEmail(m1, m2)
       \/ NameWithin(m1, m2)
       \/ NameWithin(m2, m1)

\* find_potential_duplicates(limit): the results the query can return, each a
\* set of rows.  Without ORDER BY the rows that LIMIT keeps are any limit of
\* the selected ones; a negative limit keeps them all.
find_potential_duplicates(ms, limit) ==
    LET selected == {[id1 |-> i, id2 |-> j,
                      match_type |-> IF SameEmail(ms[i], ms[j]) THEN "email_match"
                                     ELSE "name_similarity"] :
                        <<i, j>> \in {ij \in (1..Len(ms)) \X (1..Len(ms)) :
                                        ij[1] < ij[2] /\ PairSelected(ms[ij[1]], ms[ij[2]])}}
        kept == IF limit < 0 \/ limit > Cardinality(selected)
                THEN Cardinality(selected) ELSE limit
    IN {rows \in SUBSET selected : Cardinality(rows) = kept}

MaxPairStore == 3  \* records in a store that find_potential_duplicates joins
MaxLimit == 2      \* the limit of a find_potential_duplicates call

name_BoDy == <<"B","o"," ","D","y">>
email_b == <<"b","@","x",".","p","h">>

\* the records of such a store: two names of which one contains the other
\* and one unrelated name, two e-mail addresses or none
PairRows ==
    {[row |-> RawRow(name, email, Absent), status |-> status] :
        name \in {StrV(name_Al), StrV(name_AlCu), StrV(name_BoDy)},
        email \in {StrV(email_a), StrV(email_b), Absent}, status \in Statuses}

InitPairs ==
    /\ \E n \in 0..MaxPairStore : \E recs \in [1..n -> PairRows] :
            members = StoreOf(<<>>, recs)
    /\ change_log = <<>>
    /\ \E limit \in 0..MaxLimit : last = [Idle EXCEPT !.op = "inputs", !.limit = limit]
    /\ source = <<>>
    /\ pass = 0
    /\ pos = 0
    /\ snap = <<>>
    /\ ops = 0
    /\ budget = 0
    /\ stats = InitStats
    /\ import_batches = <<>>
    /\ run = NoRun
    /\ workers = <<>>

\* db.find_potential_duplicates(limit)
FindPotentialDuplicates ==
    /\ last.op = "inputs"
    /\ \E rows \in find_potential_duplicates(members, last.limit) :
            last' = [last EXCEPT !.op = "find_potential_duplicates", !.pairs = rows]
    /\ UNCHANGED <<members, change_log, source, pass, pos, snap, ops, budget, stats, import_batches, run, workers>>

SpecPairs == InitPairs /\ [][FindPotentialDuplicates]_vars

PairsReturned == last.op = "find_potential_duplicates"

IsActive(i) == members[i]["is_active"] = IntV(1)

\* C12: find_potential_duplicates(limit) returns at most limit pairs, each
\* unordered pair at most once, both records of every pair active and not
\* marked duplicate, and with the same primary_email or with one normalized
\* name inside the other.
C12_PairsAreActiveMatches ==
    PairsReturned =>
        /\ Cardinality(last.pairs) <= last.limit
        /\ \A p \in last.pairs, q \in last.pairs :
                {p.id1, p.id2} = {q.id1, q.id2} => p = q
        /\ \A p \in last.pairs :
                /\ p.id1 # p.id2
                /\ IsActive(p.id1) /\ IsActive(p.id2)
                /\ ~IsDuplicate(members[p.id1]) /\ ~IsDuplicate(members[p.id2])
                /\ \/ SameEmail(members[p.id1], members[p.id2])
                   \/ NameWithin(members[p.id1], members[p.id2])
                   \/ NameWithin(members[p.id2], members[p.id1])

\* C12: a returned pair holds a soft-deleted record
C12_DeletedInPair ==
    PairsReturned /\ \E p \in last.pairs : ~IsActive(p.id1) \/ ~IsActive(p.id2)

\* C12, the part that holds: every conjunct but the one on active records
C12_PairsAreMatches ==
    PairsReturned =>
        /\ Cardinality(last.pairs) <= last.limit
        /\ \A p \in last.pairs, q \in last.pairs :
                {p.id1, p.id2} = {q.id1, q.id2} => p = q
        /\ \A p \in last.pairs :
                /\ p.id1 # p.id2
                /\ ~IsDuplicate(members[p.id1]) /\ ~IsDuplicate(members[p.id2])
                /\ \/ SameEmail(members[p.id1], members[p.id2])
                   \/ NameWithin(members[p.id1], members[p.id2])
                   \/ NameWithin(members[p.id2], members[p.id1])

TwoWithSameEmail ==
    Len(members) = 2 /\ SameEmail(members[1], members[2])

OneEmailMatch ==
    Cardinality(last.pairs) = 1 /\ \A p \in last.pairs : p.match_type = "email_match"

\* C13: on a store of exactly two records with the same non-null
\* primary_email, neither marked duplicate, find_potential_duplicates with a
\* limit of at least one returns exactly one pair, of match_type email_match,
\* whatever the names.
C13_UnmergedSameEmailIsOnePair ==
    (PairsReturned /\ TwoWithSameEmail /\ last.limit >= 1
        /\ ~IsDuplicate(members[1]) /\ ~IsDuplicate(members[2])) => OneEmailMatch

\* C13: the pair of two records with the same e-mail and unrelated names
C13_UnrelatedNamesPaired ==
    /\ PairsReturned /\ TwoWithSameEmail /\ last.limit >= 1
    /\ ~IsDuplicate(members[1]) /\ ~IsDuplicate(members[2])
    /\ ~NameWithin(members[1], members[2]) /\ ~NameWithin(members[2], members[1])
    /\ OneEmailMatch

\* C13 as stated: on a store of exactly two records with the same non-null
\* primary_email, find_potential_duplicates returns exactly one pair, of
\* match_type email_match, whatever the names.
C13_SameEmailIsOnePair ==
    (PairsReturned /\ TwoWithSameEmail /\ last.limit >= 1) => OneEmailMatch

----------------------------------------------------------------------------
(* Two threads in _import_member at the same time.  Every store call opens
   its own connection and commits before it returns (get_connection,
   insert_member, update_member), and _import_member holds no lock and no
   transaction between its calls: a thread can be overtaken between the
   search of _find_existing_member and its own insert or update. *)

MaxWorkers == 2    \* threads inside _import_member at the same time

\* the rows the threads import
WorkerRows == {RawRow(StrV(name_DrAlCu), StrV(email_a), StrV(addr_Makati)),
               RawRow(StrV(name_DrAlCu), StrV(email_a), StrV(addr_Ortigas)),
               RawRow(StrV(name_DrAlCu), StrV(email_a), Absent),
               RawRow(StrV(name_AlCruz), Absent, Absent)}

\* a thread that has not yet searched the store for member_data
ImportWorker(member_data) ==
    [pc |-> "find", new |-> normalize_member_data(member_data), id |-> 0,
     existing |-> EmptyDict]

InitConcurrentImport ==
    /\ \E n \in 0..1 : \E recs \in [1..n -> {[row |-> raw, status |-> "stored"] : raw \in WorkerRows}] :
            members = StoreOf(<<>>, recs)
    /\ snap = members
    /\ workers \in [1..MaxWorkers -> {ImportWorker(raw) : raw \in WorkerRows}]
    /\ change_log = <<>>
    /\ last = Idle
    /\ source = <<>>
    /\ pass = 0
    /\ pos = 0
    /\ ops = 0
    /\ budget = 0
    /\ stats = InitStats
    /\ import_batches = <<>>
    /\ run = NoRun

\* thread w runs _find_existing_member: it keeps the row the search returned
WorkerFinds(w) ==
    /\ workers[w].pc = "find"
    /\ \E res \in find_existing_member(members, workers[w].new) :
            workers' = [workers EXCEPT ![w].pc = "write", ![w].id = res.id,
                            ![w].existing = IF res.id = 0 THEN EmptyDict
                                            ELSE members[res.id]]
    /\ UNCHANGED <<members, change_log, last, source, pass, pos, snap, ops, budget,
                   stats, import_batches, run>>

\* thread w runs the rest of _import_member: the merge is computed from the row
\* it read, the insert or update goes to the store as it is now
WorkerWrites(w) ==
    /\ workers[w].pc = "write"
    /\ LET me == workers[w]
           raises == me.id # 0 /\ MergeRaises(me.existing, me.new)
           updates == IF me.id = 0 \/ raises THEN EmptyDict
                      ELSE merge_member_data(me.existing, me.new)
       IN /\ members' = IF me.id = 0 THEN insert_member(members, me.new)
                        ELSE IF raises THEN members
                        ELSE update_member(members, me.id, updates)
          /\ stats' = IF me.id = 0 THEN [stats EXCEPT !.records_imported = @ + 1]
                      ELSE IF raises \/ updates = EmptyDict THEN stats
                      ELSE [stats EXCEPT !.records_updated = @ + 1]
          /\ last' = [Idle EXCEPT !.op = "import_member", !.raised = raises,
                                  !.id = IF me.id = 0 THEN Len(members) + 1 ELSE me.id,
                                  !.existing = me.existing, !.new = me.new,
                                  !.updates = updates]
    /\ workers' = [workers EXCEPT ![w].pc = "done"]
    /\ UNCHANGED <<change_log, source, pass, pos, snap, ops, budget, import_batches, run>>

NextConcurrentImport ==
    \/ \E w \in 1..MaxWorkers : WorkerFinds(w)
    \/ \E w \in 1..MaxWorkers : WorkerWrites(w)

SpecConcurrentImport == InitConcurrentImport /\ [][NextConcurrentImport]_vars

\* the members tables that _import_member of first and then of second, one
\* after the other, can leave from ms
SerialImports(ms, first, second) ==
    {import_member(m1, second, r2) :
        <<m1, r2>> \in UNION {{<<import_member(ms, first, r1), r>> :
                                  r \in find_existing_member(import_member(ms, first, r1), second)} :
                              r1 \in find_existing_member(ms, first)}}

WorkersDone == \A w \in 1..MaxWorkers : workers[w].pc = "done"

\* the non-duplicate records whose primary_email is email
HoldersOf(email) ==
    {i \in 1..Len(members) :
        members[i]["is_duplicate"] = IntV(0) /\ members[i]["primary_email"] = email}

\* C14: the read-existing / compute-diff / write-diff of _import_member is
\* atomic with respect to other writers: two concurrent calls leave the store
\* as one of their two serial orders would (so no applied update is lost), and
\* two concurrent ingestions with the same new primary_email never leave two
\* non-duplicate records with that e-mail.
C14_ConcurrentImportsSerialize ==
    WorkersDone =>
        /\ members \in SerialImports(snap, workers[1].new, workers[2].new)
                        \cup SerialImports(snap, workers[2].new, workers[1].new)
        /\ \A email \in {Get(workers[w].new, "primary_email") : w \in 1..MaxWorkers} :
                (email.t = "str" /\ \A i \in 1..Len(snap) : snap[i]["primary_email"] # email)
                    => Cardinality(HoldersOf(email)) <= 1

\* C14: both threads have inserted a record for the same new e-mail
C14_TwoRecordsForOneEmail ==
    /\ WorkersDone
    /\ snap = <<>>
    /\ Get(workers[1].new, "primary_email") = Get(workers[2].new, "primary_email")
    /\ Cardinality(HoldersOf(Get(workers[1].new, "primary_email"))) = 2

\* C14: the later of two updates of one record has put back a shorter address
\* over the longer one that was written after it was read
C14_UpdateLost ==
    /\ WorkersDone
    /\ Len(snap) = 1 /\ Len(members) = 1
    /\ members[1]["home_address_full"] = StrV(addr_Makati)
    /\ snap[1]["home_address_full"] = None
    /\ \E w \in 1..MaxWorkers : Get(workers[w].new, "home_address_full") = StrV(addr_Ortigas)

----------------------------------------------------------------------------
(* A search_members call on one thread while merge_duplicates runs on
   another.  merge_duplicates issues BEGIN TRANSACTION on its connection, runs
   one UPDATE per duplicate id and commits after the loop; search_members is a
   single SELECT on a connection of its own and reads the committed table. *)

MaxMergeStore == 3   \* records in the store that the merge works on

MergeRows == {RawRow(StrV(name_DrAlCu), StrV(email_a), Absent),
              RawRow(StrV(name_AlCruz), Absent, Absent)}

\* the query_params of the search: no filter, or a name filter
SearchParams == {[k \in {} |-> <<>>], [k \in {"name"} |-> <<"c","r","u","z">>]}

\* committed_after_update with every UPDATE committed as it is made
committed_after_update_autocommit(committed, tx) == tx

\* the table that other connections read after an UPDATE inside the open
\* transaction of merge_duplicates: the committed one, not the transaction's
committed_after_update(committed, tx) == committed

InitConcurrentMerge ==
    /\ \E n \in 2..MaxMergeStore :
         \E recs \in [1..n -> {[row |-> raw, status |-> "stored"] : raw \in MergeRows}] :
            members = StoreOf(<<>>, recs)
    /\ snap = members
    /\ \E primary_id \in RequestIds, duplicate_ids \in DuplicateIdLists,
          query_params \in SearchParams :
            workers = <<[pc |-> "begin", primary_id |-> primary_id,
                         duplicate_ids |-> duplicate_ids, at |-> 1, tx |-> <<>>,
                         raised |-> FALSE],
                        [pc |-> "search", query_params |-> query_params,
                         result |-> <<>>, during |-> "none"]>>
    /\ change_log = <<>>
    /\ last = Idle
    /\ source = <<>>
    /\ pass = 0
    /\ pos = 0
    /\ ops = 0
    /\ budget = 0
    /\ stats = InitStats
    /\ import_batches = <<>>
    /\ run = NoRun

\* merge_duplicates up to the loop: BEGIN TRANSACTION and the lookup of the
\* primary record; a missing primary raises, and the handler rolls back
MergeBegins ==
    /\ workers[1].pc = "begin"
    /\ IF IsRow(get_member_by_id(members, workers[1].primary_id))
       THEN workers' = [workers EXCEPT ![1].pc = "update", ![1].tx = members]
       ELSE workers' = [workers EXCEPT ![1].pc = "done", ![1].raised = TRUE]
    /\ UNCHANGED <<members, change_log, last, source, pass, pos, snap, ops, budget,
                   stats, import_batches, run>>

\* one round of the loop: the UPDATE of the next duplicate id inside the
\* transaction, and log_change, which finds the database locked
MergeUpdates ==
    /\ workers[1].pc = "update"
    /\ workers[1].at <= Len(workers[1].duplicate_ids)
    /\ LET me == workers[1]
           done == MergeLoop(me.tx, change_log, me.primary_id,
                             <<me.duplicate_ids[me.at]>>)
       IN /\ workers' = [workers EXCEPT ![1].tx = done.members, ![1].at = @ + 1]
          /\ members' = committed_after_update(members, done.members)
          /\ change_log' = done.change_log
    /\ UNCHANGED <<last, source, pass, pos, snap, ops, budget, stats, import_batches, run>>

\* conn.commit() after the loop, and the return
MergeCommits ==
    /\ workers[1].pc = "update"
    /\ workers[1].at > Len(workers[1].duplicate_ids)
    /\ members' = workers[1].tx
    /\ workers' = [workers EXCEPT ![1].pc = "done"]
    /\ last' = [Idle EXCEPT !.op = "merge_duplicates",
                            !.primary_id = workers[1].primary_id,
                            !.duplicate_ids = workers[1].duplicate_ids]
    /\ UNCHANGED <<change_log, source, pass, pos, snap, ops, budget, stats,
                   import_batches, run>>

\* search_members(query_params) on the other thread; during records where the
\* merge stood, and how many of its UPDATEs had run
SearchRuns ==
    /\ workers[2].pc = "search"
    /\ \E result \in search_members(members, workers[2].query_params) :
            workers' = [workers EXCEPT ![2].pc = "done", ![2].result = result,
                            ![2].during = <<workers[1].pc, workers[1].at>>]
    /\ UNCHANGED <<members, change_log, last, source, pass, pos, snap, ops, budget,
                   stats, import_batches, run>>

NextConcurrentMerge == MergeBegins \/ MergeUpdates \/ MergeCommits \/ SearchRuns

SpecConcurrentMerge == InitConcurrentMerge /\ [][NextConcurrentMerge]_vars

\* the stored ids among the duplicate_ids of the merge
MergedIds ==
    {workers[1].duplicate_ids[k] : k \in 1..Len(workers[1].duplicate_ids)}
        \cap (1..Len(members))

\* the ids among them that the search result shows, that is, that the search
\* saw unmarked (with no filter every non-duplicate record is in the result)
SeenUnmarked ==
    MergedIds \cap {workers[2].result[k] : k \in 1..Len(workers[2].result)}

\* C15: a search_members call concurrent with merge_duplicates(p, [d1..dn])
\* sees none of d1..dn marked duplicate or all of them, never a strict
\* non-empty subset: its result is a result on the store before the merge or
\* on the store after it.
C15_SearchSeesWholeMerge ==
    workers[2].pc = "done" =>
        /\ workers[2].result \in
                search_members(snap, workers[2].query_params)
                \cup search_members(merge_duplicates(snap, <<>>, workers[1].primary_id,
                                                     workers[1].duplicate_ids).members,
                                    workers[2].query_params)
        /\ workers[2].query_params = [k \in {} |-> <<>>] =>
                SeenUnmarked = MergedIds \/ SeenUnmarked = {}

\* C15: a search has run between the two UPDATEs of a merge of two records
C15_SearchedMidMerge ==
    /\ workers[2].pc = "done"
    /\ workers[2].during = <<"update", 2>>
    /\ Cardinality(MergedIds) = 2
    /\ workers[2].query_params = [k \in {} |-> <<>>]
    /\ SeenUnmarked = MergedIds

----------------------------------------------------------------------------
(* import_all_files, called more than once on one DataProcessor instance (the
   web application keeps a single data_processor).  Between two statements of
   a call the store can fail: a store call then raises. *)

MaxRuns == 2       \* import_all_files calls on the one DataProcessor
MaxFiles == 2      \* files that _discover_files finds
MaxFileRows == 2   \* rows of one file

ImportRows == {RawRow(StrV(name_DrAlCu), StrV(email_a), Absent),
               RawRow(StrV(name_AlCruz), Absent, Absent)}

ImportFiles == UNION {[1..n -> ImportRows] : n \in 1..MaxFileRows}

\* what can happen to one row: _extract_member_from_excel_row raises, a store
\* call inside _import_member raises, or neither
RowOutcomes == {"extract_raises", "store_fails", "imported"}

\* the import_batches row that create_import_batch inserts; import_status is
\* left to the default of the schema.  updates counts the UPDATEs of the row.
NewBatch == [import_status |-> "schema_default", total_files_processed |-> 0,
             total_records_processed |-> 0, records_created |-> 0,
             records_updated |-> 0, errors_encountered |-> 0,
             error_log |-> <<>>, updates |-> 0]

\* update_record with the WHERE clause left out: every row is updated
update_record_every_row(table, record_id, updates) ==
    [i \in 1..Len(table) |->
        [c \in DOMAIN table[i] |->
            IF c \in DOMAIN updates THEN updates[c]
            ELSE IF c = "updates" THEN table[i][c] + 1 ELSE table[i][c]]]

\* update_record: UPDATE table SET ... WHERE id = record_id
update_record(table, record_id, updates) ==
    [i \in 1..Len(table) |->
        IF i = record_id
        THEN [c \in DOMAIN table[i] |->
                IF c \in DOMAIN updates THEN updates[c]
                ELSE IF c = "updates" THEN table[i][c] + 1 ELSE table[i][c]]
        ELSE table[i]]

\* the updates that import_all_files hands to update_import_batch after the
\* loop over the files
FinalResults(st) ==
    [total_files_processed |-> st.files_processed,
     total_records_processed |-> st.records_found,
     records_created |-> st.records_imported,
     records_updated |-> st.records_updated,
     errors_encountered |-> Len(st.errors),
     import_status |-> IF st.errors = <<>> THEN "success" ELSE "partial",
     error_log |-> st.errors]

\* the updates of the except branch of import_all_files
FailureResults == [import_status |-> "failed", error_log |-> <<"store error">>]

InitImport ==
    /\ members = <<>>
    /\ change_log = <<>>
    /\ last = Idle
    /\ source \in UNION {[1..n -> ImportFiles] : n \in 1..MaxFiles}
    /\ pass = 0
    /\ pos = 0
    /\ snap = <<>>
    /\ ops = 0
    /\ budget = 0
    /\ stats = InitStats
    /\ import_batches = <<>>
    /\ run = NoRun
    /\ workers = <<>>

\* import_all_files up to the loop: create_import_batch, which raises when the
\* store fails (nothing is caught there)
StartImport ==
    /\ run.pc = "idle"
    /\ run.calls < MaxRuns
    /\ \E store_fails \in BOOLEAN :
        IF store_fails
        THEN /\ run' = [NoRun EXCEPT !.calls = run.calls + 1, !.raised = TRUE]
             /\ UNCHANGED import_batches
        ELSE /\ import_batches' = Append(import_batches, NewBatch)
             /\ run' = [NoRun EXCEPT !.pc = "files", !.calls = run.calls + 1,
                                     !.batch_id = Len(import_batches) + 1,
                                     !.file = 1, !.row = 1]
    /\ last' = [Idle EXCEPT !.op = "import_all_files"]
    /\ UNCHANGED <<members, change_log, source, pass, pos, snap, ops, budget, stats,
                   workers>>

\* one round of the row loop of _process_csv_file / _process_excel_file, and,
\* after the last row of a file, the return to import_all_files, which counts
\* the file
ProcessRow ==
    /\ run.pc = "files"
    /\ run.file <= Len(source)
    /\ LET normalized_data == normalize_member_data(source[run.file][run.row])
           last_row == run.row = Len(source[run.file])
           moved == [run EXCEPT !.file = IF last_row THEN @ + 1 ELSE @,
                                !.row = IF last_row THEN 1 ELSE @ + 1,
                                !.files_done = IF last_row THEN @ + 1 ELSE @]
           counted(st) == [st EXCEPT !.files_processed = IF last_row THEN @ + 1 ELSE @]
       IN \E outcome \in RowOutcomes :
            CASE outcome = "extract_raises" ->
                    /\ run' = [moved EXCEPT !.row_errors = @ + 1]
                    /\ stats' = counted(stats)
                    /\ UNCHANGED members
              [] outcome = "store_fails" ->
                    /\ run' = [moved EXCEPT !.store_failures = @ + 1, !.found = @ + 1]
                    /\ stats' = counted([stats EXCEPT !.records_found = @ + 1])
                    /\ UNCHANGED members
              [] outcome = "imported" ->
                    \E res \in find_existing_member(members, normalized_data) :
                        LET st == import_stats(stats, members, normalized_data, res)
                        IN /\ members' = import_member(members, normalized_data, res)
                           /\ stats' = counted([st EXCEPT !.records_found = @ + 1])
                           /\ run' = [moved EXCEPT
                                        !.found = @ + 1,
                                        !.created = @ + (st.records_imported - stats.records_imported),
                                        !.updated = @ + (st.records_updated - stats.records_updated)]
    /\ UNCHANGED <<change_log, last, source, pass, pos, snap, ops, budget,
                   import_batches, workers>>

\* import_all_files after the loop: update_import_batch with the results and
\* the return; when that raises, update_import_batch with 'failed' and the
\* raise; when that raises too, its exception goes to the caller
FinishImport ==
    /\ run.pc = "files"
    /\ run.file > Len(source)
    /\ \E store_fails \in BOOLEAN, store_fails_again \in BOOLEAN :
        /\ import_batches' =
                IF ~store_fails
                THEN update_record(import_batches, run.batch_id, FinalResults(stats))
                ELSE IF ~store_fails_again
                THEN update_record(import_batches, run.batch_id, FailureResults)
                ELSE import_batches
        /\ run' = [run EXCEPT !.pc = "idle", !.raised = store_fails]
        /\ last' = [Idle EXCEPT !.op = "import_all_files", !.raised = store_fails]
    /\ UNCHANGED <<members, change_log, source, pass, pos, snap, ops, budget, stats,
                   workers>>

NextImport == StartImport \/ ProcessRow \/ FinishImport

SpecImport == InitImport /\ [][NextImport]_vars

\* an import_all_files call has ended, by return or by raise
RunEnded == run.pc = "idle" /\ run.calls > 0

\* the call that ended had created its batch
BatchOfRun == import_batches[run.batch_id]

\* C16: if the store fails while import_all_files imports, the run is aborted,
\* its ImportBatch is finalized as failed and the error is raised to the
\* caller; the batch is never finalized as success.
C16_StoreFailureFailsBatch ==
    (RunEnded /\ run.batch_id # 0 /\ run.store_failures >= 1) =>
        /\ run.raised
        /\ BatchOfRun.import_status = "failed"

\* C16: a run in which a store call of _import_member failed has returned
\* with its batch finalized as success
C16_FailureFinalizedSuccess ==
    /\ RunEnded /\ run.batch_id # 0 /\ run.store_failures >= 1
    /\ ~run.raised
    /\ BatchOfRun.import_status = "success"
    /\ run.files_done = Len(source)

\* C17: when importing one row raises, import_all_files continues, and the
\* finalized batch has errors_encountered >= 1, the error in error_log and
\* import_status partial.
C17_RowErrorMakesBatchPartial ==
    (RunEnded /\ run.batch_id # 0 /\ ~run.raised /\ run.row_errors >= 1) =>
        /\ run.files_done = Len(source)
        /\ BatchOfRun.errors_encountered >= 1
        /\ BatchOfRun.error_log # <<>>
        /\ BatchOfRun.import_status = "partial"

\* C17: a run in which a row raised went on to the rows after it and was
\* finalized with no error recorded
C17_RowErrorFinalizedSuccess ==
    /\ RunEnded /\ run.batch_id # 0 /\ ~run.raised /\ run.row_errors >= 1
    /\ run.found >= 1
    /\ run.files_done = Len(source)
    /\ BatchOfRun.errors_encountered = 0
    /\ BatchOfRun.error_log = <<>>
    /\ BatchOfRun.import_status = "success"

\* C17, the part that holds: a row that raises never stops the run
C17_RunContinuesAfterRowError ==
    (RunEnded /\ run.batch_id # 0) => run.files_done = Len(source)

\* C18: for every import_all_files call, the second and later ones on the same
\* DataProcessor instance included, the counters of its batch count only the
\* events of that run, and its status depends only on that run's errors.
C18_BatchCountsItsOwnRun ==
    (RunEnded /\ run.batch_id # 0 /\ ~run.raised) =>
        /\ BatchOfRun.total_files_processed = run.files_done
        /\ BatchOfRun.total_records_processed = run.found
        /\ BatchOfRun.records_created = run.created
        /\ BatchOfRun.records_updated = run.updated

\* C18: the batch of a second run counts the records of the first run too
C18_SecondRunCountsFirst ==
    /\ RunEnded /\ run.batch_id = 2 /\ ~run.raised
    /\ BatchOfRun.total_records_processed > run.found
    /\ BatchOfRun.total_files_processed > run.files_done

\* C18, the part that holds: the batch of the first call counts its own run
C18_FirstRunCountsItself ==
    (RunEnded /\ run.calls = 1 /\ run.batch_id # 0 /\ ~run.raised) =>
        /\ BatchOfRun.total_files_processed = run.files_done
        /\ BatchOfRun.total_records_processed = run.found
        /\ BatchOfRun.records_created = run.created
        /\ BatchOfRun.records_updated = run.updated

\* the batches that no running call owns
SettledBatches ==
    {b \in 1..Len(import_batches) : run.pc = "idle" \/ b # run.batch_id}

----------------------------------------------------------------------------
(* The two admin forms on their own: show_add_member_form and
   show_member_editor, with every text the administrator can leave in the
   name and e-mail fields *)

MaxAdminOps == 3   \* forms submitted in one behaviour of SpecAdmin

\* what the administrator can leave in the name field of the edit form
EditFormNames == {<<>>, name_DrAlCu}

InitAdmin ==
    /\ members = <<>>
    /\ change_log = <<>>
    /\ last = Idle
    /\ source = <<>>
    /\ pass = 0
    /\ pos = 0
    /\ snap = <<>>
    /\ ops = 0
    /\ budget = MaxAdminOps
    /\ stats = InitStats
    /\ import_batches = <<>>
    /\ run = NoRun
    /\ workers = <<>>

NextAdmin ==
    \/ \E new_full_name \in FormNames, new_email \in FormEmails,
          new_secondary_email \in FormEmails, new_mobile \in FormMobiles,
          new_home_address \in FormAddresses :
            AdminAdd(new_full_name, new_email, new_secondary_email, new_mobile,
                     new_home_address)
    \/ \E member_id \in 1..Len(members) :
          \E new_name \in EditFormNames, new_email \in FormEmails,
             new_home_address \in FormAddresses :
            AdminEdit(member_id, new_name, new_email, new_home_address)

SpecAdmin == InitAdmin /\ [][NextAdmin]_vars

\* the form has written to the store
AddWrote == last.op = "admin_add" /\ last.id # 0
EditWrote == last.op = "admin_edit" /\ last.updates # EmptyDict

\* another active, non-duplicate record holds email as primary or secondary
HeldByAnother(member_id, email) ==
    \E j \in 1..Len(members) :
        /\ j # member_id
        /\ members[j]["is_active"] = IntV(1)
        /\ members[j]["is_duplicate"] = IntV(0)
        /\ members[j]["primary_email"] = email \/ members[j]["secondary_email"] = email

\* the record the form wrote has a name, and no other active non-duplicate
\* record holds its primary e-mail
WrittenFormValid ==
    /\ members[last.id]["full_name"].t = "str"
    /\ strip(members[last.id]["full_name"].s) # <<>>
    /\ members[last.id]["primary_email"].t = "str" =>
            ~HeldByAnother(last.id, members[last.id]["primary_email"])

\* C20: an admin add or admin edit with an empty full name, or with a primary
\* e-mail equal to the primary or secondary e-mail of another active
\* non-duplicate record, is rejected before any store mutation: a form that
\* has written to the members table or the change log was a valid one.
C20_InvalidFormsWriteNothing ==
    (AddWrote \/ EditWrote) => WrittenFormValid

\* C20: the edit form has stored an empty name
C20_EditStoredEmptyName ==
    /\ EditWrote
    /\ "full_name" \in DOMAIN last.updates
    /\ members[last.id]["full_name"] = StrV(<<>>)
    /\ change_log # <<>> /\ change_log[Len(change_log)].change_type = "UPDATE"

\* C20: the edit form has stored the e-mail of another record
C20_EditStoredTakenEmail ==
    /\ EditWrote
    /\ "primary_email" \in DOMAIN last.updates
    /\ last.updates["primary_email"].t = "str"
    /\ HeldByAnother(last.id, last.updates["primary_email"])

\* C20, the part that holds: what the add form writes is valid
C20_AddWritesOnlyValidForms ==
    AddWrote => WrittenFormValid

----------------------------------------------------------------------------
(* Queries over a directory that is added to, deleted from, restored and merged *)

MaxQueryOps == 4   \* operations in one behaviour of SpecQuery

DIRECTORY_LIMIT == 50

\* _format_directory_results: the ids of the formatted entries
format_directory_results(results) ==
    SubSeq(results, 1, IF Len(results) < DIRECTORY_LIMIT THEN Len(results)
                       ELSE DIRECTORY_LIMIT)

\* QueryProcessor._search_demographic(query, query_intent)
SearchDemographic ==
    /\ ops < budget
    /\ \E results \in search_members(members, EmptyDict) :
            last' = [Idle EXCEPT !.op = "search_demographic",
                                 !.results = format_directory_results(results),
                                 !.total_count = Len(results)]
    /\ ops' = ops + 1
    /\ UNCHANGED <<members, change_log, source, pass, pos, snap, budget, stats,
                   import_batches, run, workers>>

\* the filters of a structured search
QueryParams ==
    {EmptyDict,
     [k \in {"name"} |-> <<"a", "l">>],
     [k \in {"email"} |-> email_a],
     [k \in {"name", "email"} |-> IF k = "name" THEN <<"C", "u">> ELSE email_a]}

\* DatabaseManager.search_members(query_params)
SearchMembers(query_params) ==
    /\ ops < budget
    /\ \E results \in search_members(members, query_params) :
            last' = [Idle EXCEPT !.op = "search_members", !.params = query_params,
                                 !.results = results, !.total_count = Len(results)]
    /\ ops' = ops + 1
    /\ UNCHANGED <<members, change_log, source, pass, pos, snap, budget, stats,
                   import_batches, run, workers>>

\* the names the administrator enters in the add form of this directory
QueryFormNames == {name_DrAlCu, name_AlCruz}

InitQuery ==
    /\ members = <<>>
    /\ change_log = <<>>
    /\ last = Idle
    /\ source = <<>>
    /\ pass = 0
    /\ pos = 0
    /\ snap = <<>>
    /\ ops = 0
    /\ budget = MaxQueryOps
    /\ stats = InitStats
    /\ import_batches = <<>>
    /\ run = NoRun
    /\ workers = <<>>

NextQuery ==
    \/ \E new_full_name \in QueryFormNames, new_email \in FormEmails :
            AdminAdd(new_full_name, new_email, <<>>, mobile_09, addr_Makati)
    \/ \E member_id \in 1..Len(members) : DeleteMember(member_id)
    \/ \E member_id \in 1..Len(members) : RestoreMember(member_id)
    \/ \E primary_id \in 1..Len(members), duplicate_id \in 1..Len(members) :
            MergeDuplicates(primary_id, <<duplicate_id>>)
    \/ SearchDemographic
    \/ \E query_params \in QueryParams : SearchMembers(query_params)

SpecQuery == InitQuery /\ [][NextQuery]_vars

\* the records a demographic query should count: active and not merged away
ActiveRoster == {i \in 1..Len(members) : IsActive(i) /\ ~IsDuplicate(members[i])}

DemographicAnswered == last.op = "search_demographic"

\* C21: every record a demographic query returns is active and non-duplicate,
\* and total_count counts exactly the active, non-duplicate records, so a
\* soft-deleted record is neither listed nor counted until it is restored
C21_DemographicListsActiveRoster ==
    DemographicAnswered =>
        /\ \A k \in 1..Len(last.results) : last.results[k] \in ActiveRoster
        /\ last.total_count = Cardinality(ActiveRoster)

\* a demographic query listed and counted a soft-deleted record
C21_DeletedListedAndCounted ==
    /\ DemographicAnswered
    /\ \E k \in 1..Len(last.results) :
          /\ ~IsActive(last.results[k])
          /\ ~IsDuplicate(members[last.results[k]])
    /\ last.total_count > Cardinality(ActiveRoster)

\* C21, the part that holds: a demographic query lists and counts exactly the
\* records that are not marked duplicate
C21_DemographicListsUnmerged ==
    DemographicAnswered =>
        /\ \A k \in 1..Len(last.results) : ~IsDuplicate(members[last.results[k]])
        /\ last.total_count =
              Cardinality({i \in 1..Len(members) : ~IsDuplicate(members[i])})

----------------------------------------------------------------------------
(* QueryProcessor._detect_query_intent *)

\* A pattern of _detect_query_intent: its literal text as a sequence of
\* parts, each the set of texts its alternation allows (an optional group
\* allows the empty text), and what must follow the literal text: any
\* character but a newline for (.+), a word character for (\w+...), nothing
\* when the pattern ends with its literal text.

\* \w
IsWordChar(c) == IsAlpha(c) \/ c \in Digits \/ c = "_"

TailMatches(s, i, tail) ==
    CASE tail = "any" -> i <= Len(s) /\ s[i] # "\n"
      [] tail = "word" -> i <= Len(s) /\ IsWordChar(s[i])
      [] OTHER -> TRUE

\* whether the pattern, from its k-th part on, matches s at index i
RECURSIVE MatchAt(_, _, _, _)
MatchAt(s, i, pattern, k) ==
    IF k > Len(pattern.parts) THEN TailMatches(s, i, pattern.tail)
    ELSE \E alt \in pattern.parts[k] :
            OccursAt(alt, s, i) /\ MatchAt(s, i + Len(alt), pattern, k + 1)

\* re.search(pattern, s) finds a match
re_search(pattern, s) == \E i \in 1..(Len(s) + 1) : MatchAt(s, i, pattern, 1)

\* 1: who (?:lives?|resides?|is) (?:in|at|from|near) (.+)
\* 2: (?:show|find|list|get) (?:me |all )?(?:people|members|everyone) (?:in|at|from|near) (.+)
\* 3: (?:anyone|somebody|someone) (?:in|at|from|near) (.+)
\* 4: members? (?:in|at|from|near) (.+)
\* 5: from (.+?)(?:\s|$): the lazy group ends at the first whitespace or at the end
location_patterns ==
    <<
    [parts |-> <<{<<"w","h","o"," ">>},
               {<<"l","i","v","e">>, <<"l","i","v","e","s">>, <<"r","e","s","i","d","e">>, <<"r","e","s","i","d","e","s">>, <<"i","s">>},
               {<<" ">>},
               {<<"i","n">>, <<"a","t">>, <<"f","r","o","m">>, <<"n","e","a","r">>},
               {<<" ">>}>>,
     tail |-> "any"],
    [parts |-> <<{<<"s","h","o","w">>, <<"f","i","n","d">>, <<"l","i","s","t">>, <<"g","e","t">>},
               {<<" ">>},
               {<<>>, <<"m","e"," ">>, <<"a","l","l"," ">>},
               {<<"p","e","o","p","l","e">>, <<"m","e","m","b","e","r","s">>, <<"e","v","e","r","y","o","n","e">>},
               {<<" ">>},
               {<<"i","n">>, <<"a","t">>, <<"f","r","o","m">>, <<"n","e","a","r">>},
               {<<" ">>}>>,
     tail |-> "any"],
    [parts |-> <<{<<"a","n","y","o","n","e">>, <<"s","o","m","e","b","o","d","y">>, <<"s","o","m","e","o","n","e">>},
               {<<" ">>},
               {<<"i","n">>, <<"a","t">>, <<"f","r","o","m">>, <<"n","e","a","r">>},
               {<<" ">>}>>,
     tail |-> "any"],
    [parts |-> <<{<<"m","e","m","b","e","r">>, <<"m","e","m","b","e","r","s">>},
               {<<" ">>},
               {<<"i","n">>, <<"a","t">>, <<"f","r","o","m">>, <<"n","e","a","r">>},
               {<<" ">>}>>,
     tail |-> "any"],
    [parts |-> <<{<<"f","r","o","m"," ">>}>>,
     tail |-> "any"]
    >>

\* 1: batch (\w+[-\s]?\w*)
\* 2: from (?:batch |the batch )?(\w+[-\s]?\w*)
\* 3: (?:show|find|list) (?:me )?(?:batch |the batch )?(\w+[-\s]?\w*)
batch_patterns ==
    <<
    [parts |-> <<{<<"b","a","t","c","h"," ">>}>>,
     tail |-> "word"],
    [parts |-> <<{<<"f","r","o","m"," ">>},
               {<<>>, <<"b","a","t","c","h"," ">>, <<"t","h","e"," ","b","a","t","c","h"," ">>}>>,
     tail |-> "word"],
    [parts |-> <<{<<"s","h","o","w">>, <<"f","i","n","d">>, <<"l","i","s","t">>},
               {<<" ">>},
               {<<>>, <<"m","e"," ">>},
               {<<>>, <<"b","a","t","c","h"," ">>, <<"t","h","e"," ","b","a","t","c","h"," ">>}>>,
     tail |-> "word"]
    >>

\* 1: (?:need|looking for|find me) (?:a |an )?(?:lawyer|doctor|engineer|accountant|consultant)
\* 2: (?:lawyer|doctor|engineer|accountant|consultant)
\* 3: (?:legal|medical|engineering|accounting|consulting) (?:help|services|advice)
professional_patterns ==
    <<
    [parts |-> <<{<<"n","e","e","d">>, <<"l","o","o","k","i","n","g"," ","f","o","r">>, <<"f","i","n","d"," ","m","e">>},
               {<<" ">>},
               {<<>>, <<"a"," ">>, <<"a","n"," ">>},
               {<<"l","a","w","y","e","r">>, <<"d","o","c","t","o","r">>, <<"e","n","g","i","n","e","e","r">>, <<"a","c","c","o","u","n","t","a","n","t">>, <<"c","o","n","s","u","l","t","a","n","t">>}>>,
     tail |-> "none"],
    [parts |-> <<{<<"l","a","w","y","e","r">>, <<"d","o","c","t","o","r">>, <<"e","n","g","i","n","e","e","r">>, <<"a","c","c","o","u","n","t","a","n","t">>, <<"c","o","n","s","u","l","t","a","n","t">>}>>,
     tail |-> "none"],
    [parts |-> <<{<<"l","e","g","a","l">>, <<"m","e","d","i","c","a","l">>, <<"e","n","g","i","n","e","e","r","i","n","g">>, <<"a","c","c","o","u","n","t","i","n","g">>, <<"c","o","n","s","u","l","t","i","n","g">>},
               {<<" ">>},
               {<<"h","e","l","p">>, <<"s","e","r","v","i","c","e","s">>, <<"a","d","v","i","c","e">>}>>,
     tail |-> "none"]
    >>

\* 1: (?:who|anyone) (?:likes?|enjoys?|plays?) (.+)
\* 2: (?:find|show) (?:me )?(?:people|members) (?:who )?(?:like|enjoy|play) (.+)
\* 3: (?:who|anyone) (?:can help|knows about|has experience with) (?:me )?(?:with |buy |sell |find )?(.+)
\* 4: (?:need|want) to (?:buy|sell|find|get) (.+)
\* 5: (?:interested in|into) (.+)
\* 6: hobbies? (?:include?|are?) (.+)
\* 7: sports? (.+)
interest_patterns ==
    <<
    [parts |-> <<{<<"w","h","o">>, <<"a","n","y","o","n","e">>},
               {<<" ">>},
               {<<"l","i","k","e">>, <<"l","i","k","e","s">>, <<"e","n","j","o","y">>, <<"e","n","j","o","y","s">>, <<"p","l","a","y">>, <<"p","l","a","y","s">>},
               {<<" ">>}>>,
     tail |-> "any"],
    [parts |-> <<{<<"f","i","n","d">>, <<"s","h","o","w">>},
               {<<" ">>},
               {<<>>, <<"m","e"," ">>},
               {<<"p","e","o","p","l","e">>, <<"m","e","m","b","e","r","s">>},
               {<<" ">>},
               {<<>>, <<"w","h","o"," ">>},
               {<<"l","i","k","e">>, <<"e","n","j","o","y">>, <<"p","l","a","y">>},
               {<<" ">>}>>,
     tail |-> "any"],
    [parts |-> <<{<<"w","h","o">>, <<"a","n","y","o","n","e">>},
               {<<" ">>},
               {<<"c","a","n"," ","h","e","l","p">>, <<"k","n","o","w","s"," ","a","b","o","u","t">>, <<"h","a","s"," ","e","x","p","e","r","i","e","n","c","e"," ","w","i","t","h">>},
               {<<" ">>},
               {<<>>, <<"m","e"," ">>},
               {<<>>, <<"w","i","t","h"," ">>, <<"b","u","y"," ">>, <<"s","e","l","l"," ">>, <<"f","i","n","d"," ">>}>>,
     tail |-> "any"],
    [parts |-> <<{<<"n","e","e","d">>, <<"w","a","n","t">>},
               {<<" ","t","o"," ">>},
               {<<"b","u","y">>, <<"s","e","l","l">>, <<"f","i","n","d">>, <<"g","e","t">>},
               {<<" ">>}>>,
     tail |-> "any"],
    [parts |-> <<{<<"i","n","t","e","r","e","s","t","e","d"," ","i","n">>, <<"i","n","t","o">>},
               {<<" ">>}>>,
     tail |-> "any"],
    [parts |-> <<{<<"h","o","b","b","i","e">>, <<"h","o","b","b","i","e","s">>},
               {<<" ">>},
               {<<"i","n","c","l","u","d">>, <<"i","n","c","l","u","d","e">>, <<"a","r">>, <<"a","r","e">>},
               {<<" ">>}>>,
     tail |-> "any"],
    [parts |-> <<{<<"s","p","o","r","t">>, <<"s","p","o","r","t","s">>},
               {<<" ">>}>>,
     tail |-> "any"]
    >>

\* 1: how many (?:people|members)
\* 2: (?:count|total) (?:of )?(?:people|members)
\* 3: list (?:all|everyone)
\* 4: (?:show|get) (?:me )?(?:all|everyone|everybody)
demographic_patterns ==
    <<
    [parts |-> <<{<<"h","o","w"," ","m","a","n","y"," ">>},
               {<<"p","e","o","p","l","e">>, <<"m","e","m","b","e","r","s">>}>>,
     tail |-> "none"],
    [parts |-> <<{<<"c","o","u","n","t">>, <<"t","o","t","a","l">>},
               {<<" ">>},
               {<<>>, <<"o","f"," ">>},
               {<<"p","e","o","p","l","e">>, <<"m","e","m","b","e","r","s">>}>>,
     tail |-> "none"],
    [parts |-> <<{<<"l","i","s","t"," ">>},
               {<<"a","l","l">>, <<"e","v","e","r","y","o","n","e">>}>>,
     tail |-> "none"],
    [parts |-> <<{<<"s","h","o","w">>, <<"g","e","t">>},
               {<<" ">>},
               {<<>>, <<"m","e"," ">>},
               {<<"a","l","l">>, <<"e","v","e","r","y","o","n","e">>, <<"e","v","e","r","y","b","o","d","y">>}>>,
     tail |-> "none"]
    >>

\* for pattern in patterns: if re.search(pattern, query_lower)
AnyMatches(patterns, query_lower) ==
    \E k \in 1..Len(patterns) : re_search(patterns[k], query_lower)

\* the families tried with the professional patterns first
intent_of_profession_first(query_lower) ==
    IF AnyMatches(professional_patterns, query_lower) THEN "professional_service"
    ELSE IF AnyMatches(location_patterns, query_lower) THEN "location_based"
    ELSE IF AnyMatches(batch_patterns, query_lower) THEN "batch_based"
    ELSE IF AnyMatches(interest_patterns, query_lower) THEN "interest_based"
    ELSE IF AnyMatches(demographic_patterns, query_lower) THEN "demographic"
    ELSE "general_directory"

\* the 'type' of the intent, for the lower-cased query
intent_of(query_lower) ==
    IF AnyMatches(location_patterns, query_lower) THEN "location_based"
    ELSE IF AnyMatches(batch_patterns, query_lower) THEN "batch_based"
    ELSE IF AnyMatches(professional_patterns, query_lower) THEN "professional_service"
    ELSE IF AnyMatches(interest_patterns, query_lower) THEN "interest_based"
    ELSE IF AnyMatches(demographic_patterns, query_lower) THEN "demographic"
    ELSE "general_directory"

\* _detect_query_intent(query)['type']
detect_query_intent(query) == intent_of(lower(query))

\* the openings and the endings of the queries a user types
QueryOpenings ==
    {<<"w","h","o"," ","l","i","v","e","s"," ","i","n"," ">>,
     <<"W","h","o"," ","i","s"," ","f","r","o","m"," ">>,
     <<"f","i","n","d"," ","m","e","m","b","e","r","s"," ","i","n"," ">>,
     <<"a","n","y","o","n","e"," ","n","e","a","r"," ">>,
     <<"I"," ","n","e","e","d"," ","a"," ">>,
     <<"l","o","o","k","i","n","g"," ","f","o","r"," ","a"," ">>,
     <<"b","a","t","c","h"," ">>,
     <<"s","h","o","w"," ","m","e"," ">>,
     <<"l","i","s","t"," ","a","l","l"," ">>,
     <<"h","o","w"," ","m","a","n","y"," ","m","e","m","b","e","r","s"," ">>,
     <<"w","h","o"," ","l","i","k","e","s"," ">>,
     <<"n","e","e","d"," ","t","o"," ","b","u","y"," ">>,
     <<"i","n","t","e","r","e","s","t","e","d"," ","i","n"," ">>,
     <<"s","p","o","r","t","s"," ">>,
     <<>>,
     <<"n","a","m","e","d"," ">>,
     <<"l","e","g","a","l"," ">>,
     <<"t","o","t","a","l"," ","o","f"," ","p","e","o","p","l","e"," ">>,
     <<"g","e","t"," ","m","e"," ","e","v","e","r","y","o","n","e"," ">>}
QueryEndings ==
    {<<"M","a","k","a","t","i">>,
     <<"l","a","w","y","e","r">>,
     <<"9","5","-","S">>,
     <<"g","o","l","f">>,
     <<"a"," ","l","a","w","y","e","r"," ","i","n"," ","C","e","b","u">>,
     <<"h","e","l","p">>,
     <<"d","o","c","t","o","r"," ","f","r","o","m"," ","C","e","b","u">>,
     <<>>}
query_who_lives_in_Makati == <<"w","h","o"," ","l","i","v","e","s"," ","i","n"," ","M","a","k","a","t","i">>

Queries == {opening \o ending : opening \in QueryOpenings, ending \in QueryEndings}

InitIntent ==
    /\ members = <<>>
    /\ change_log = <<>>
    /\ \E query \in Queries : last = [Idle EXCEPT !.op = "inputs", !.query = query]
    /\ source = <<>>
    /\ pass = 0
    /\ pos = 0
    /\ snap = <<>>
    /\ ops = 0
    /\ budget = 0
    /\ stats = InitStats
    /\ import_batches = <<>>
    /\ run = NoRun
    /\ workers = <<>>

\* self._detect_query_intent(query)
DetectQueryIntent ==
    /\ last.op = "inputs"
    /\ last' = [last EXCEPT !.op = "detect_query_intent",
                            !.step = detect_query_intent(last.query)]
    /\ UNCHANGED <<members, change_log, source, pass, pos, snap, ops, budget, stats,
                   import_batches, run, workers>>

SpecIntent == InitIntent /\ [][DetectQueryIntent]_vars

\* the pattern families in the order the claim gives them
FamilyOrder == <<"location_based", "batch_based", "professional_service",
                 "interest_based", "demographic">>

FamilyPatterns(type) ==
    CASE type = "location_based" -> location_patterns
      [] type = "batch_based" -> batch_patterns
      [] type = "professional_service" -> professional_patterns
      [] type = "interest_based" -> interest_patterns
      [] type = "demographic" -> demographic_patterns

\* some pattern of the family matches the lower-cased query
FamilyMatches(type, query) == AnyMatches(FamilyPatterns(type), lower(query))

IntentDetected == last.op = "detect_query_intent"

----------------------------------------------------------------------------
(* Ranking of professional-service results (query_processor.py) *)

\* date(year, 1, 1) as a day number (date.toordinal)
date_jan1(year) ==
    365 * (year - 1) + ((year - 1) \div 4) - ((year - 1) \div 100)
        + ((year - 1) \div 400) + 1

PROFESSIONAL_LIMIT == 20

\* Scores are in millionths; a stored confidence_score is in ten-thousandths.

\* the profession term of the relevance score
profession_score(query_profession, member_profession, inferred_profession) ==
    IF query_profession = <<>> THEN 0
    ELSE IF Contains(member_profession, query_profession) THEN 400000
    ELSE IF Contains(inferred_profession, query_profession) THEN 300000
    ELSE LET r1 == fuzz_ratio(query_profession, member_profession)
             r2 == fuzz_ratio(query_profession, inferred_profession)
         IN (IF r1 >= r2 THEN r1 ELSE r2) * 2000

\* the location term of the relevance score
location_score(query_location, member_work_location, member_home_location) ==
    IF query_location = <<>> THEN 0
    ELSE IF Contains(member_work_location, query_location) THEN 250000
    ELSE IF Contains(member_home_location, query_location) THEN 150000
    ELSE LET r1 == fuzz_ratio(query_location, member_work_location)
             r2 == fuzz_ratio(query_location, member_home_location)
         IN (IF r1 >= r2 THEN r1 ELSE r2) * 1000

\* the data freshness bonus.  The stored vintage reads back as text: a text
\* that starts with '0020' is taken as 1 January 2020, a text that is no
\* date raises ValueError, which is caught
freshness_score(estimated_vintage, today) ==
    IF ~Truthy(estimated_vintage) \/ estimated_vintage.t # "date" THEN 0
    ELSE LET vintage_date ==
                 IF /\ estimated_vintage.n >= date_jan1(20)
                    /\ estimated_vintage.n < date_jan1(21)
                 THEN date_jan1(2020)
                 ELSE estimated_vintage.n
             days_old == today - vintage_date
         IN IF days_old < 365 THEN 50000
            ELSE IF days_old < 1825 THEN 20000
            ELSE 0

\* the contact availability bonus
contact_score(primary_email, mobile_phone) ==
    (IF Truthy(primary_email) THEN 50000 ELSE 0)
    + (IF Truthy(mobile_phone) THEN 50000 ELSE 0)

\* min(score, 1.0)
capped_score(score) == IF score < 1000000 THEN score ELSE 1000000

\* QueryProcessor._calculate_professional_relevance_score
calculate_professional_relevance_score(member, query_components, today) ==
    capped_score(
        Get(member, "confidence_score").n * 30
        + profession_score(lower(OrEmpty(Get(query_components, "profession"))),
                           lower(OrEmpty(Get(member, "current_profession_normalized"))),
                           lower(OrEmpty(Get(member, "inferred_profession"))))
        + location_score(lower(OrEmpty(Get(query_components, "location"))),
                         lower(OrEmpty(Get(member, "office_address_city_normalized"))),
                         lower(OrEmpty(Get(member, "home_address_city_normalized"))))
        + freshness_score(Get(member, "estimated_data_vintage"), today)
        + contact_score(Get(member, "primary_email"), Get(member, "mobile_phone")))

\* list.reverse()
Reverse(s) == [i \in 1..Len(s) |-> s[Len(s) + 1 - i]]

\* x put into the ascending list after every entry whose score is not greater
InsertAscending(sorted, x) ==
    LET k == Cardinality({i \in 1..Len(sorted) : sorted[i].score <= x.score})
    IN SubSeq(sorted, 1, k) \o <<x>> \o SubSeq(sorted, k + 1, Len(sorted))

\* a stable ascending sort by score
RECURSIVE SortAscending(_)
SortAscending(scored) ==
    IF scored = <<>> THEN <<>>
    ELSE InsertAscending(SortAscending(SubSeq(scored, 1, Len(scored) - 1)),
                         scored[Len(scored)])

\* a descending sort that reverses the result of the ascending sort only
sort_reverse_after_only(scored_results) == Reverse(SortAscending(scored_results))

\* scored_results.sort(key=lambda x: x[1], reverse=True): the list is
\* reversed, sorted ascending by a stable sort, and reversed again
sort_reverse(scored_results) == Reverse(SortAscending(Reverse(scored_results)))

\* QueryProcessor._rank_professional_results: the ranked results, as the ids
\* of the members
rank_professional_results(results, query_components, today) ==
    LET scored_results ==
            [i \in 1..Len(results) |->
                [id |-> results[i]["id"].n,
                 score |-> calculate_professional_relevance_score(
                               results[i], query_components, today)]]
        ranked == sort_reverse(scored_results)
    IN [i \in 1..Len(ranked) |-> ranked[i].id]

\* _generate_match_explanation raises AttributeError:
\* query_components.get('profession', '').lower() with 'profession' set to None
match_explanation_raises(query_components) ==
    /\ "profession" \in DOMAIN query_components
    /\ query_components["profession"] = None

\* QueryProcessor._format_professional_results raises: the explanation is
\* generated for every member of the results
format_professional_raises(results, query_components) ==
    results # <<>> /\ match_explanation_raises(query_components)

\* QueryProcessor._format_professional_results: the ids of the formatted entries
format_professional_results(results) ==
    SubSeq(results, 1, IF Len(results) < PROFESSIONAL_LIMIT THEN Len(results)
                       ELSE PROFESSIONAL_LIMIT)

MaxShortList == 3   \* candidates of a list drawn freely from the kinds
MaxLongList == 22   \* candidates of a list that repeats the kinds in order

prof_Legal == <<"L","e","g","a","l">>
prof_Medical == <<"M","e","d","i","c","a","l">>
prof_lawyer == <<"l","a","w","y","e","r">>
prof_legal_counsel == <<"l","e","g","a","l"," ","c","o","u","n","s","e","l">>
city_makati == <<"m","a","k","a","t","i">>
city_pasig == <<"p","a","s","i","g">>

\* a retrieved candidate
Candidate(confidence, profession, inferred, work, home, vintage, email, mobile) ==
    [k \in {"confidence_score", "current_profession_normalized", "inferred_profession",
            "office_address_city_normalized", "home_address_city_normalized",
            "estimated_data_vintage", "primary_email", "mobile_phone"} |->
        CASE k = "confidence_score" -> FloatV(confidence)
          [] k = "current_profession_normalized" -> profession
          [] k = "inferred_profession" -> inferred
          [] k = "office_address_city_normalized" -> work
          [] k = "home_address_city_normalized" -> home
          [] k = "estimated_data_vintage" -> vintage
          [] k = "primary_email" -> email
          [] OTHER -> mobile]

\* the kinds of records a search retrieves
CandidateKinds ==
    <<Candidate(10000, StrV(prof_legal_counsel), None, StrV(city_makati), None,
                DateV(date_jan1(2026)), StrV(email_a), StrV(mobile_09)),
      Candidate(5000, None, StrV(prof_Legal), None, StrV(city_makati),
                DateV(date_jan1(20)), None, StrV(mobile_09)),
      Candidate(5000, None, StrV(prof_Legal), None, StrV(city_makati),
                DateV(date_jan1(19)), None, StrV(mobile_09)),
      Candidate(3000, StrV(prof_lawyer), None, StrV(city_pasig), None,
                DateV(date_jan1(2023)), StrV(email_a), None),
      Candidate(0, None, None, None, None, None, None, None),
      Candidate(3000, StrV(prof_lawyer), None, None, StrV(city_pasig),
                StrV(text_Al), None, StrV(mobile_09))>>

\* the candidate lists: their records carry the ids 1, 2, ... in retrieval order
WithIds(kinds) ==
    [i \in 1..Len(kinds) |->
        [k \in DOMAIN kinds[i] \cup {"id"} |-> IF k = "id" THEN IntV(i) ELSE kinds[i][k]]]

CandidateLists ==
    {WithIds([i \in 1..n |-> CandidateKinds[f[i]]]) :
        n \in 0..MaxShortList, f \in [1..MaxShortList -> DOMAIN CandidateKinds]}
    \cup {WithIds([i \in 1..n |-> CandidateKinds[((i + shift) % Len(CandidateKinds)) + 1]]) :
             n \in (MaxLongList - 3)..MaxLongList, shift \in DOMAIN CandidateKinds}

\* what _parse_professional_query found in the query: 'profession' is a key
\* of PROFESSION_KEYWORDS, or None when the query names no profession
QueryComponents ==
    {[k \in {"profession", "location"} |-> IF k = "profession" THEN profession ELSE location] :
        profession \in {None, StrV(prof_Legal), StrV(prof_Medical)},
        location \in {None, StrV(city_makati)}}

\* date.today()
Todays == {date_jan1(2026) + 304, date_jan1(2024) + 152}

InitRank ==
    /\ members = <<>>
    /\ change_log = <<>>
    /\ \E query_components \in QueryComponents, today \in Todays :
            last = [Idle EXCEPT !.op = "inputs", !.params = query_components,
                                !.today = today]
    /\ source = <<>>
    /\ pass = 0
    /\ pos = 0
    /\ snap \in CandidateLists
    /\ ops = 0
    /\ budget = 0
    /\ stats = InitStats
    /\ import_batches = <<>>
    /\ run = NoRun
    /\ workers = <<>>

\* search_professional_services, from the retrieved results (snap) on:
\* _rank_professional_results and _format_professional_results
RankProfessionalResults ==
    /\ last.op = "inputs"
    /\ last' = [last EXCEPT
                   !.op = "search_professional_services",
                   !.raised = format_professional_raises(snap, last.params),
                   !.results = IF format_professional_raises(snap, last.params) THEN <<>>
                               ELSE format_professional_results(
                                        rank_professional_results(snap, last.params,
                                                                  last.today)),
                   !.total_count = Len(snap)]
    /\ UNCHANGED <<members, change_log, source, pass, pos, snap, ops, budget, stats,
                   import_batches, run, workers>>

SpecRank == InitRank /\ [][RankProfessionalResults]_vars

\* the relevance score of every retrieved candidate
ScoreOfCandidate ==
    [i \in 1..Len(snap) |->
        calculate_professional_relevance_score(snap[i], last.params, last.today)]

\* the place of candidate i when the candidates are ordered by non-increasing
\* score and candidates with equal score keep their retrieval order
PlaceIn(score, i) ==
    1 + Cardinality({j \in DOMAIN score : score[j] > score[i]})
      + Cardinality({j \in DOMAIN score : j < i /\ score[j] = score[i]})

Ranked == last.op = "search_professional_services"

\* the result is the first 20 of the retrieved candidates in the order of
\* non-increasing relevance score, candidates with equal score in retrieval
\* order, and every score is in [0, 1]
TopTwentyByStableScoreOrder ==
    /\ Len(last.results) = (IF Len(snap) < 20 THEN Len(snap) ELSE 20)
    /\ \A k \in 1..Len(last.results) :
          PlaceIn(ScoreOfCandidate, last.results[k]) = k
    /\ \A i \in 1..Len(snap) :
          ScoreOfCandidate[i] >= 0 /\ ScoreOfCandidate[i] <= 1000000

\* C24: a professional-service search returns the first 20 of the retrieved
\* candidates ordered by non-increasing relevance score, ties in retrieval
\* order, with every score in [0, 1]
C24_SearchReturnsTopTwentyRanked ==
    Ranked => ~last.raised /\ TopTwentyByStableScoreOrder

\* a professional-service search that retrieved candidates raised instead of
\* returning them
C24_SearchRaisedOnCandidates ==
    Ranked /\ last.raised /\ Len(snap) > 0

\* C24, the part that holds: a professional-service search that returns,
\* returns the first 20 candidates by non-increasing score, ties in retrieval
\* order, with every score in [0, 1]
C24_ReturnedResultIsTopTwentyRanked ==
    (Ranked /\ ~last.raised) => TopTwentyByStableScoreOrder

\* more than 20 candidates were retrieved, two of them with equal score among
\* the first 20 of the result, and one candidate reached the cap
C24_TiesAndCapWithinTwenty ==
    /\ Ranked
    /\ Len(snap) > 20
    /\ Len(last.results) = 20
    /\ \E k \in 1..19 :
          ScoreOfCandidate[last.results[k]] = ScoreOfCandidate[last.results[k + 1]]
    /\ \E i \in 1..Len(snap) : ScoreOfCandidate[i] = 1000000

----------------------------------------------------------------------------
(* ProfessionInferencer.infer_profession_info over a range of members *)

email_doh == <<"a","@","d","o","h",".","g","o","v",".","p","h">>
email_petron == <<"a","@","P","e","t","r","o","n",".","c","o","m">>
email_gmail == <<"a","@","g","m","a","i","l",".","c","o","m">>
email_lawfirm == <<"a","@","c","r","u","z","l","a","w",".","p","h">>
company_bureau ==
    <<"D","e","p","a","r","t","m","e","n","t"," ","o","f"," ","P","u","b","l","i","c"," ",
      "S","e","r","v","i","c","e",","," ","M","u","n","i","c","i","p","a","l"," ",
      "G","o","v","e","r","n","m","e","n","t"," ","B","u","r","e","a","u">>
company_school ==
    <<"U","n","i","v","e","r","s","i","t","y"," ","R","e","s","e","a","r","c","h"," ",
      "a","n","d"," ","T","r","a","i","n","i","n","g"," ","S","c","h","o","o","l">>
title_Lawyer == <<"L","a","w","y","e","r">>
title_attorney ==
    <<"A","t","t","o","r","n","e","y",","," ","l","a","w","y","e","r"," ","a","n","d"," ",
      "l","e","g","a","l"," ","c","o","u","n","s","e","l",":"," ",
      "c","o","r","p","o","r","a","t","e"," ","l","a","w",","," ",
      "l","i","t","i","g","a","t","i","o","n">>
title_professor ==
    <<"P","r","o","f","e","s","s","o","r"," ","a","n","d"," ","D","e","a","n">>
office_law == <<"L","a","w"," ","O","f","f","i","c","e",","," ","M","a","k","a","t","i">>
office_hospital ==
    <<"M","e","d","i","c","a","l"," ","C","l","i","n","i","c",","," ",
      "M","a","k","a","t","i"," ","H","o","s","p","i","t","a","l">>

\* the members whose profession is inferred: a subset of the four fields filled
InferenceInputs ==
    {[k \in {"primary_email", "current_company", "current_profession",
             "office_address_full"} |->
        CASE k = "primary_email" -> email
          [] k = "current_company" -> company
          [] k = "current_profession" -> job_title
          [] OTHER -> office] :
        email \in {None, StrV(email_a), StrV(email_doh), StrV(email_petron),
                   StrV(email_gmail), StrV(email_lawfirm)},
        company \in {None, StrV(company_bureau), StrV(company_school)},
        job_title \in {None, StrV(title_Lawyer), StrV(title_attorney), StrV(title_professor)},
        office \in {None, StrV(office_law), StrV(office_hospital)}}

InitInfer ==
    /\ members = <<>>
    /\ change_log = <<>>
    /\ \E member_data \in InferenceInputs :
            last = [Idle EXCEPT !.op = "inputs", !.new = member_data]
    /\ source = <<>>
    /\ pass = 0
    /\ pos = 0
    /\ snap = <<>>
    /\ ops = 0
    /\ budget = 0
    /\ stats = InitStats
    /\ import_batches = <<>>
    /\ run = NoRun
    /\ workers = <<>>

\* self.ai_inferencer.infer_profession_info(normalized)
InferProfessionInfo ==
    /\ last.op = "inputs"
    /\ last' = [last EXCEPT !.op = "infer_profession_info",
                            !.updates = infer_profession_info(last.new)]
    /\ UNCHANGED <<members, change_log, source, pass, pos, snap, ops, budget, stats,
                   import_batches, run, workers>>

SpecInfer == InitInfer /\ [][InferProfessionInfo]_vars

Inferred == last.op = "infer_profession_info"

\* the best aggregate category confidence of the member, as num / den
\* (0 / 1 when no category scored)
BestConfidence ==
    LET final_scores == final_scores_of(text_sources_of(last.new))
        best == BestOf(final_scores)
    IN IF best = 0 THEN [num |-> 0, den |-> 1]
       ELSE [num |-> final_scores[best].num, den |-> final_scores[best].den]

----------------------------------------------------------------------------
(* TextProcessor.normalize_batch (text_processor.py) *)

DigitChars == <<"0","1","2","3","4","5","6","7","8","9">>

\* int(c) for a digit character
DigitValue(c) == (CHOOSE d \in DOMAIN DigitChars : DigitChars[d] = c) - 1

\* int(digits)
RECURSIVE int_of(_)
int_of(digits) ==
    IF digits = <<>> THEN 0
    ELSE 10 * int_of(SubSeq(digits, 1, Len(digits) - 1)) + DigitValue(digits[Len(digits)])

\* str(n) for n >= 0
RECURSIVE str_of(_)
str_of(n) ==
    IF n < 10 THEN <<DigitChars[n + 1]>>
    ELSE str_of(n \div 10) \o <<DigitChars[(n % 10) + 1]>>

\* the characters of s from index i on that satisfy the class, as far as they go
RECURSIVE RunOfDigits(_, _)
RunOfDigits(s, i) ==
    IF i > Len(s) \/ s[i] \notin Digits THEN 0 ELSE 1 + RunOfDigits(s, i + 1)
RECURSIVE RunOfLetters(_, _)
RunOfLetters(s, i) ==
    IF i > Len(s) \/ ~IsAlpha(s[i]) THEN 0 ELSE 1 + RunOfLetters(s, i + 1)
RECURSIVE RunOfSpaces(_, _)
RunOfSpaces(s, i) ==
    IF i > Len(s) \/ ~IsSpace(s[i]) THEN 0 ELSE 1 + RunOfSpaces(s, i + 1)

\* (\d{2,4})-([A-Z]+\d*) at index i with k digits, re.IGNORECASE
YearDashCodeAt(s, i, k) ==
    /\ RunOfDigits(s, i) >= k
    /\ i + k <= Len(s) /\ s[i + k] = "-"
    /\ RunOfLetters(s, i + k + 1) >= 1

\* BATCH_PATTERNS[0], r'(\d{2,4})-([A-Z]+\d*)': the groups of the leftmost
\* match, the year group as long as it can be (no match: groups = <<>>)
match_year_code(s) ==
    LET hits == {x \in (1..Len(s)) \X (2..4) : YearDashCodeAt(s, x[1], x[2])}
    IN IF hits = {} THEN <<>>
       ELSE LET x == CHOOSE y \in hits :
                        \A z \in hits : y[1] < z[1] \/ (y[1] = z[1] /\ y[2] >= z[2])
                code == x[1] + x[2] + 1
                letters == RunOfLetters(s, code)
            IN <<SubSeq(s, x[1], x[1] + x[2] - 1),
                 SubSeq(s, code, code + letters + RunOfDigits(s, code + letters) - 1)>>

\* BATCH_PATTERNS[3], r'Batch\s+(\d{2,4})'
match_batch_year(s) ==
    LET hits == {i \in 1..Len(s) :
                    /\ OccursAt(<<"b","a","t","c","h">>, lower(s), i)
                    /\ RunOfSpaces(s, i + 5) >= 1
                    /\ RunOfDigits(s, i + 5 + RunOfSpaces(s, i + 5)) >= 2}
    IN IF hits = {} THEN <<>>
       ELSE LET i == CHOOSE j \in hits : \A k \in hits : j <= k
                d == i + 5 + RunOfSpaces(s, i + 5)
                n == IF RunOfDigits(s, d) < 4 THEN RunOfDigits(s, d) ELSE 4
            IN <<SubSeq(s, d, d + n - 1)>>

\* BATCH_PATTERNS[4], r'(\d{2,4})'
match_year(s) ==
    LET hits == {i \in 1..Len(s) : RunOfDigits(s, i) >= 2}
    IN IF hits = {} THEN <<>>
       ELSE LET i == CHOOSE j \in hits : \A k \in hits : j <= k
                n == IF RunOfDigits(s, i) < 4 THEN RunOfDigits(s, i) ELSE 4
            IN <<SubSeq(s, i, i + n - 1)>>

\* for pattern in BATCH_PATTERNS: the groups of the first pattern that matches.
\* Patterns 1 and 2 (the same as pattern 0 after 'Batch' or 'Batch No:')
\* match only where pattern 0 matches, so they are never the first.
first_batch_match(s) ==
    IF match_year_code(s) # <<>> THEN match_year_code(s)
    ELSE IF match_batch_year(s) # <<>> THEN match_batch_year(s)
    ELSE match_year(s)

\* Convert 2-digit to 4-digit year
four_digit_year(year) ==
    IF year < 50 THEN year + 2000
    ELSE IF year < 100 THEN year + 1900
    ELSE year

batch_era(year) ==
    IF 1990 <= year /\ year < 2000 THEN <<"9","0","s">>
    ELSE IF 2000 <= year /\ year < 2010 THEN <<"2","0","0","0","s">>
    ELSE IF 2010 <= year /\ year < 2020 THEN <<"2","0","1","0","s">>
    ELSE str_of(year) \o <<"s">>

\* Build normalized format: the sub-number is appended when it is truthy
batch_normalized(year, semester, sub_number) ==
    IF semester # <<>>
    THEN str_of(year) \o <<"-">> \o semester
         \o (IF Truthy(sub_number) THEN str_of(sub_number.n) ELSE <<>>)
    ELSE str_of(year)

\* the result for the groups of the match: year, semester letters and
\* sub-number digits
batch_result(batch_str, year, semester, sub_digits) ==
    [k \in {"batch_original", "batch_normalized", "batch_year", "batch_semester",
            "batch_sub_number", "batch_decade", "batch_era"} |->
        CASE k = "batch_original" -> StrV(batch_str)
          [] k = "batch_normalized" ->
                StrV(batch_normalized(year, semester,
                                      IF sub_digits # <<>> THEN IntV(int_of(sub_digits))
                                      ELSE None))
          [] k = "batch_year" -> IntV(year)
          [] k = "batch_semester" -> IF semester # <<>> THEN StrV(semester) ELSE None
          [] k = "batch_sub_number" ->
                IF sub_digits # <<>> THEN IntV(int_of(sub_digits)) ELSE None
          [] k = "batch_decade" -> IntV((year \div 10) * 10)
          [] OTHER -> StrV(batch_era(year))]

\* the result when no pattern matches
batch_unmatched(batch_str) ==
    [k \in {"batch_original", "batch_normalized", "batch_year", "batch_semester",
            "batch_sub_number", "batch_decade", "batch_era"} |->
        IF k = "batch_original" THEN StrV(batch_str) ELSE None]

\* the result for the groups of the first match
batch_from_groups(batch_str, groups) ==
    IF groups = <<>> THEN batch_unmatched(batch_str)
    ELSE IF Len(groups) = 1
    THEN batch_result(batch_str, four_digit_year(int_of(groups[1])), <<>>, <<>>)
    ELSE batch_result(batch_str, four_digit_year(int_of(groups[1])),
                      [i \in 1..RunOfLetters(groups[2], 1) |-> UpperChar(groups[2][i])],
                      SubSeq(groups[2], RunOfLetters(groups[2], 1) + 1, Len(groups[2])))

\* TextProcessor.normalize_batch(batch_str)
normalize_batch(batch_str) ==
    IF batch_str = <<>> THEN EmptyDict
    ELSE batch_from_groups(batch_str, first_batch_match(batch_str))

\* the parts of a batch text "yy-Ln": an optional prefix, a two-digit year,
\* a letter code and an optional sub-number digit
BatchPrefixes == {<<>>, <<"B","a","t","c","h"," ">>,
                  <<"B","a","t","c","h"," ","N","o",":"," ">>}
BatchYears == {<<"0","0">>, <<"0","1">>, <<"4","9">>, <<"5","0">>, <<"8","8">>,
               <<"9","5">>, <<"9","9">>}
BatchCodes == {<<"S">>, <<"B">>, <<"G">>}
BatchSubNumbers == {<<>>, <<"0">>, <<"1">>, <<"9">>}

BatchParts ==
    {[k \in {"prefix", "yy", "code", "sub"} |->
        CASE k = "prefix" -> StrV(prefix) [] k = "yy" -> StrV(yy)
          [] k = "code" -> StrV(code) [] OTHER -> StrV(sub)] :
        prefix \in BatchPrefixes, yy \in BatchYears, code \in BatchCodes,
        sub \in BatchSubNumbers}

BatchText(parts) ==
    parts["prefix"].s \o parts["yy"].s \o <<"-">> \o parts["code"].s \o parts["sub"].s

InitBatch ==
    /\ members = <<>>
    /\ change_log = <<>>
    /\ \E parts \in BatchParts :
            last = [Idle EXCEPT !.op = "inputs", !.existing = parts,
                                !.query = BatchText(parts)]
    /\ source = <<>>
    /\ pass = 0
    /\ pos = 0
    /\ snap = <<>>
    /\ ops = 0
    /\ budget = 0
    /\ stats = InitStats
    /\ import_batches = <<>>
    /\ run = NoRun
    /\ workers = <<>>

\* self.text_processor.normalize_batch(normalized['batch_original'])
NormalizeBatch ==
    /\ last.op = "inputs"
    /\ last' = [last EXCEPT !.op = "normalize_batch",
                            !.updates = normalize_batch(last.query)]
    /\ UNCHANGED <<members, change_log, source, pass, pos, snap, ops, budget, stats,
                   import_batches, run, workers>>

SpecBatch == InitBatch /\ [][NormalizeBatch]_vars

BatchNormalized == last.op = "normalize_batch"

\* the four-digit year text of the two-digit year text yy: 20yy below 50, 19yy from 50
ExpectedYearText(yy) ==
    (IF yy[1] \in {"0","1","2","3","4"} THEN <<"2","0">> ELSE <<"1","9">>) \o yy

\* what the claim says normalize_batch yields for the parts of the text
BatchAsClaimed(parts, result) ==
    /\ str_of(result["batch_year"].n) = ExpectedYearText(parts["yy"].s)
    /\ result["batch_year"].t = "int"
    /\ result["batch_decade"] = IntV((result["batch_year"].n \div 10) * 10)
    /\ result["batch_semester"] = parts["code"]
    /\ parts["sub"].s # <<>> =>
          str_of(result["batch_sub_number"].n) = parts["sub"].s
    /\ result["batch_normalized"] =
          StrV(ExpectedYearText(parts["yy"].s) \o <<"-">> \o parts["code"].s
               \o parts["sub"].s)

\* C26: for "yy-Ln", also after "Batch " or "Batch No: ", normalize_batch
\* yields batch_year 2000+yy below 50 and 1900+yy from 50, batch_decade
\* floor(batch_year / 10) * 10, batch_semester L, batch_sub_number n when n
\* is given, and batch_normalized "<batch_year>-<L><n>" with every given n
C26_BatchPartsNormalized ==
    BatchNormalized => BatchAsClaimed(last.existing, last.updates)

\* a batch text with the sub-number 0 was normalized without it
C26_ZeroSubNumberDropped ==
    /\ BatchNormalized
    /\ last.existing["sub"].s = <<"0">>
    /\ last.updates["batch_sub_number"] = IntV(0)
    /\ last.updates["batch_normalized"] =
          StrV(ExpectedYearText(last.existing["yy"].s) \o <<"-">> \o last.existing["code"].s)

\* C26, the part that holds: the claim for every text whose sub-number is
\* absent or not 0
C26_BatchPartsNormalizedUnlessZero ==
    (BatchNormalized /\ last.existing["sub"].s # <<"0">>)
        => BatchAsClaimed(last.existing, last.updates)

----------------------------------------------------------------------------
(* DataProcessor._estimate_data_vintage (data_processor.py) *)

\* re.findall(r'(19|20)\d{2}', filename)[0]: the pattern has one group, so
\* findall yields the text of the group, '19' or '20', of each match and not
\* the four matched digits (no match: <<>>)
first_year_match(filename) ==
    LET hits == {i \in 1..Len(filename) :
                    /\ \/ OccursAt(<<"1","9">>, filename, i)
                       \/ OccursAt(<<"2","0">>, filename, i)
                    /\ RunOfDigits(filename, i + 2) >= 2}
    IN IF hits = {} THEN <<>>
       ELSE LET i == CHOOSE j \in hits : \A k \in hits : j <= k
            IN SubSeq(filename, i, i + 1)

\* the vintage for the text of the first year match
vintage_from(year_match, filename, mtime_date) ==
    IF year_match # <<>> THEN DateV(date_jan1(int_of(year_match)))
    ELSE IF \/ Contains(filename, <<"9","0","s">>)
            \/ Contains(filename, <<"d","e","k","a","d","a","9","0">>)
    THEN DateV(date_jan1(1995))
    ELSE DateV(mtime_date)

\* DataProcessor._estimate_data_vintage(file_path); mtime_date is
\* datetime.fromtimestamp(file_path.stat().st_mtime).date()
estimate_data_vintage(file_name_of_path, mtime_date) ==
    vintage_from(first_year_match(lower(file_name_of_path)),
                 lower(file_name_of_path), mtime_date)

file_sj1998 == <<"S","J","_","1","9","9","8",".","c","s","v">>
file_list2005 == <<"l","i","s","t","2","0","0","5",".","x","l","s","x">>
file_two_years == <<"2","0","1","0","_","1","9","8","8",".","c","s","v">>
file_batch90s == <<"B","a","t","c","h","9","0","s",".","c","s","v">>
file_dekada90 == <<"D","e","k","a","d","a","9","0",".","c","s","v">>
file_1990s == <<"s","j","_","1","9","9","0","s",".","c","s","v">>
file_members == <<"m","e","m","b","e","r","s",".","c","s","v">>
file_m19 == <<"m","1","9","_","2","0","x",".","c","s","v">>

VintageFiles == {file_sj1998, file_list2005, file_two_years, file_batch90s,
                 file_dekada90, file_1990s, file_members, file_m19}

\* the dates of last modification: 1 January of these years and the day before
ModifiedYears == {1995, 2020, 2024, 2025}
ModifiedDates == {date_jan1(y) : y \in ModifiedYears} \cup {date_jan1(y) - 1 : y \in ModifiedYears}

InitVintage ==
    /\ members = <<>>
    /\ change_log = <<>>
    /\ \E f \in VintageFiles, d \in ModifiedDates :
            last = [Idle EXCEPT !.op = "inputs", !.query = f, !.today = d]
    /\ source = <<>>
    /\ pass = 0
    /\ pos = 0
    /\ snap = <<>>
    /\ ops = 0
    /\ budget = 0
    /\ stats = InitStats
    /\ import_batches = <<>>
    /\ run = NoRun
    /\ workers = <<>>

\* 'estimated_data_vintage': self._estimate_data_vintage(file_path)
EstimateDataVintage ==
    /\ last.op = "inputs"
    /\ last' = [last EXCEPT
                    !.op = "estimate_data_vintage",
                    !.updates = [k \in {"estimated_data_vintage"} |->
                                    estimate_data_vintage(last.query, last.today)]]
    /\ UNCHANGED <<members, change_log, source, pass, pos, snap, ops, budget, stats,
                   import_batches, run, workers>>

SpecVintage == InitVintage /\ [][EstimateDataVintage]_vars

VintageEstimated == last.op = "estimate_data_vintage"

\* the first four-digit token 19dd or 20dd of the text, as a number (0: none)
RECURSIVE YearTokenFrom(_, _)
YearTokenFrom(s, i) ==
    IF i + 3 > Len(s) THEN 0
    ELSE IF /\ <<s[i], s[i + 1]>> \in {<<"1","9">>, <<"2","0">>}
            /\ s[i + 2] \in Digits /\ s[i + 3] \in Digits
    THEN int_of(SubSeq(s, i, i + 3))
    ELSE YearTokenFrom(s, i + 1)

HasDecadeToken(s) ==
    \/ Contains(lower(s), <<"9","0","s">>)
    \/ Contains(lower(s), <<"d","e","k","a","d","a","9","0">>)

\* what the claim says the vintage of the file is
VintageAsClaimed(filename, mtime_date) ==
    IF YearTokenFrom(filename, 1) # 0 THEN DateV(date_jan1(YearTokenFrom(filename, 1)))
    ELSE IF HasDecadeToken(filename) THEN DateV(date_jan1(1995))
    ELSE DateV(mtime_date)

\* C28: _estimate_data_vintage returns 1 January of the year whose
\* four-digit token (19dd or 20dd) the filename contains (1998 gives
\* 1 January 1998), else 1 January 1995 when the filename contains "90s" or
\* "dekada90", else the date of the file's last modification
C28_VintageFromFilename ==
    VintageEstimated =>
        last.updates["estimated_data_vintage"] = VintageAsClaimed(last.query, last.today)

\* the file named with 1998 got the vintage 1 January of the year 19
C28_Year1998EstimatedAsYear19 ==
    /\ VintageEstimated
    /\ last.query = file_sj1998
    /\ last.updates["estimated_data_vintage"] = DateV(date_jan1(19))

\* C28, the part that holds: a filename without a year token gets 1 January
\* 1995 for "90s" or "dekada90" and the modification date otherwise
C28_VintageWithoutYearToken ==
    (VintageEstimated /\ YearTokenFrom(last.query, 1) = 0) =>
        last.updates["estimated_data_vintage"] = VintageAsClaimed(last.query, last.today)

\* a filename with "90s" and no year token got 1 January 1995
C28_DecadeFallbackTaken ==
    /\ VintageEstimated
    /\ last.query = file_batch90s
    /\ last.updates["estimated_data_vintage"] = DateV(date_jan1(1995))

----------------------------------------------------------------------------
(* The change log under the operations of Spec *)

\* every entry of the log before the step is at its place, unchanged, after it
LogKept ==
    /\ Len(change_log') >= Len(change_log)
    /\ SubSeq(change_log', 1, Len(change_log)) = change_log

\* C27: the change log is append-only: across ingest, admin add and edit,
\* delete, restore, merge_duplicates and failed merges, every entry that
\* exists in one state exists unchanged in every later state
C27_ChangeLogAppendOnly == [][LogKept]_vars

\* a logged entry was followed by a merge that raised
C27_FailedMergeAfterLoggedChange ==
    /\ change_log # <<>>
    /\ last.op = "merge_duplicates"
    /\ last.raised

\* a log of two different entries
C27_TwoEntriesLogged ==
    /\ Len(change_log) >= 2
    /\ change_log[1] # change_log[2]

----------------------------------------------------------------------------
(* The duplicate mark under the operations of Spec *)

\* every record marked as a duplicate before the step is stored and marked
\* after it
DuplicatesStayMarked ==
    \A i \in 1..Len(members) :
        IsDuplicate(members[i]) => i <= Len(members') /\ IsDuplicate(members'[i])

\* an ingestion step leaves every field of the marked records as it was
IngestLeavesDuplicates ==
    last'.op = "import_member" =>
        \A i \in 1..Len(members) :
            IsDuplicate(members[i]) => i <= Len(members') /\ members'[i] = members[i]

\* C29: once a record is marked is_duplicate it stays marked under every
\* operation, and an ingestion never changes any field of a record that is
\* marked as a duplicate
C29_DuplicateMarkKeptAndUntouched ==
    [][DuplicatesStayMarked /\ IngestLeavesDuplicates]_vars

\* a row was ingested whose e-mail is that of a record marked as a duplicate
C29_IngestedRowOfMarkedRecord ==
    /\ last.op = "import_member"
    /\ \E i \in 1..Len(members) :
          /\ IsDuplicate(members[i])
          /\ i # last.id
          /\ Truthy(Get(last.new, "primary_email"))
          /\ members[i]["primary_email"] = last.new["primary_email"]

----------------------------------------------------------------------------
(* The roster under admin add, delete_member and restore_member *)

MaxRosterOps == 5   \* operations in one behaviour of SpecRoster

InitRoster ==
    /\ members = <<>>
    /\ change_log = <<>>
    /\ last = Idle
    /\ source = <<>>
    /\ pass = 0
    /\ pos = 0
    /\ snap = <<>>
    /\ ops = 0
    /\ budget = MaxRosterOps
    /\ stats = InitStats
    /\ import_batches = <<>>
    /\ run = NoRun
    /\ workers = <<>>

NextRoster ==
    \/ \E new_full_name \in QueryFormNames, new_email \in FormEmails :
            AdminAdd(new_full_name, new_email, <<>>, mobile_09, addr_Makati)
    \/ \E member_id \in 1..Len(members) : DeleteMember(member_id)
    \/ \E member_id \in 1..Len(members) : RestoreMember(member_id)

SpecRoster == InitRoster /\ [][NextRoster]_vars

\* two different active, non-duplicate records with the same primary e-mail
SharePrimaryEmail(i, j) ==
    /\ i # j
    /\ i \in ActiveRoster /\ j \in ActiveRoster
    /\ members[i]["primary_email"] # None
    /\ members[i]["primary_email"] = members[j]["primary_email"]

\* C30: after any sequence of admin add, delete_member and restore_member, no
\* two active, non-duplicate records share a primary_email that is not null
C30_ActivePrimaryEmailsDistinct ==
    \A i, j \in 1..Len(members) : ~SharePrimaryEmail(i, j)

\* a restored record has the primary e-mail of a record added while it was
\* deleted
C30_RestoredBesideLaterAdd ==
    /\ last.op = "restore_member"
    /\ \E j \in 1..Len(members) : last.id < j /\ SharePrimaryEmail(last.id, j)

\* C30, the part that holds: an admin add stores no record whose primary
\* e-mail an active, non-duplicate record had before it
C30_AddNeverJoinsActiveEmail ==
    (last.op = "admin_add" /\ last.id # 0) =>
        \A i \in 1..Len(members) : ~SharePrimaryEmail(i, last.id)

----------------------------------------------------------------------------
(* search_members over stores of more than 100 records *)

MaxSearchStore == 102   \* records inserted in one behaviour of SpecSearch
MaxSearchOps == 2       \* merges and searches in one behaviour of SpecSearch

\* the name of the k-th inserted member: "M001", "M002", ...
MemberName(k) ==
    <<"M", DigitChars[(k \div 100) + 1], DigitChars[((k \div 10) % 10) + 1],
      DigitChars[(k % 10) + 1]>>

\* the member_data of the k-th insert
InsertedMember(k) ==
    [c \in {"full_name", "full_name_normalized", "primary_email", "confidence_score"} |->
        CASE c = "full_name" -> StrV(MemberName(k))
          [] c = "full_name_normalized" -> StrV(lower(MemberName(k)))
          [] c = "primary_email" -> StrV(email_a)
          [] OTHER -> FloatV(2400)]

\* the filters of the searches: none, a name part of every record, a name
\* part of the first 99 records, the e-mail of every record
SearchFilters ==
    {EmptyDict,
     [k \in {"name"} |-> <<"m">>],
     [k \in {"name"} |-> <<"M", "0">>],
     [k \in {"email"} |-> email_a]}

\* the records a merge request names as duplicates
MergeRequestIds == {2, 3}

InitSearch ==
    /\ members = <<>>
    /\ change_log = <<>>
    /\ last = Idle
    /\ source = <<>>
    /\ pass = 0
    /\ pos = 0
    /\ snap = <<>>
    /\ ops = 0
    /\ budget = MaxSearchOps
    /\ stats = InitStats
    /\ import_batches = <<>>
    /\ run = NoRun
    /\ workers = <<>>

\* DatabaseManager.insert_member(member_data)
InsertMember ==
    /\ Len(members) < MaxSearchStore
    /\ members' = insert_member(members, InsertedMember(Len(members) + 1))
    /\ last' = [Idle EXCEPT !.op = "insert_member", !.id = Len(members) + 1]
    /\ UNCHANGED <<change_log, source, pass, pos, snap, ops, budget, stats,
                   import_batches, run, workers>>

NextSearch ==
    \/ InsertMember
    \/ \E duplicate_id \in MergeRequestIds : MergeDuplicates(1, <<duplicate_id>>)
    \/ \E query_params \in SearchFilters : SearchMembers(query_params)

SpecSearch == InitSearch /\ [][NextSearch]_vars

Searched == last.op = "search_members"

\* the stored records that pass the filters of the last search, marked or not
MatchingFilter ==
    {i \in 1..Len(members) : SearchWhere_any_record(members[i], last.params)}

====
